---- MODULE Spec2Model ----
(***************************************************************************)
(* Model of the transcription job orchestrator                             *)
(* (packages/core/src/types.ts, createTranscriptionService) together with  *)
(* the sparse update of the SQLite storage                                 *)
(* (packages/storage/src/sqlite-storage.ts).                               *)
(*                                                                         *)
(* Every await of processTranscription is one action: the collaborator     *)
(* call is made and its promise settles, either fulfilled or rejected with *)
(* a thrown value.  Code that runs synchronously after an await (the       *)
(* webhookUrl test, the finally blocks, pendingJobs.delete) belongs to the *)
(* action of that await.                                                   *)
(***************************************************************************)
EXTENDS Integers, Sequences, FiniteSets, TLC

\* ---------------------------------------------------------------- bounds
\* Number of createTranscriptionJob calls in a run.
MaxJobs == 1
\* Number of callers of waitForJob / getTranscriptionJob in a run.
MaxClients == 1
\* Number of times the database clock advances in a run of the storage.
MaxClock == 1

\* The largest maxRetries option a client is created with.
MaxRetries == 3
\* config.maxFileSize of the file downloader, in bytes.
MaxFileSize == 2
\* The most entries the MIGRATIONS list of a build has (one in this source).
MaxMigrations == 2
\* How many times createSqliteStorage is called on the database file.
MaxOpens == 3

\* ------------------------------------------------------------ value sets
\* An absent field of a TranscriptionJob (JavaScript undefined), and an absent
\* column or statement parameter of the database (SQL NULL, JavaScript null).
Undefined == "<undefined>"
Null == "<null>"

AudioUrls == {"https://example.com/a.mp3"}
\* webhookUrl as given to createTranscriptionJob: absent, or a URL.
WebhookUrls == {Undefined, "https://example.com/webhook"}
\* Texts the transcription collaborator can return.
Texts == {"hello"}

Statuses == {"pending", "processing", "completed", "failed"}
Terminal == {"completed", "failed"}

\* An id no createJob ever returned.
UnknownId == 0
\* Ids that createJob can hand out: one more than Spec creates, for the
\* specification in which one more job runs concurrently (SpecMulti).
JobIds == 1..(MaxJobs + 1)
ClientIds == 1..MaxClients

\* A value that a collaborator throws: an Error with a message, or a value
\* that is not an Error.
ErrorOf(msg) == [isError |-> TRUE, message |-> msg]
NonError == [isError |-> FALSE, message |-> "thrown string"]
NoThrow == [isError |-> FALSE, message |-> Undefined]

\* What each awaited call can reject with; transcribe is the call that also
\* throws a value that is not an Error.
Faults(op) ==
    CASE op = "createTempDir" -> {ErrorOf("ENOSPC: mkdtemp")}
      [] op = "cleanupTempDir" -> {ErrorOf("EBUSY: rm")}
      [] op = "updateJob" -> {ErrorOf("Failed to update job")}
      [] op = "createJob" -> {ErrorOf("Failed to create job")}
      [] op = "getJob" -> {ErrorOf("Failed to get job")}
      [] op = "downloadFile" -> {ErrorOf("HTTP 404")}
      [] op = "transcribe" -> {ErrorOf("Transcription failed"), NonError}
      [] op = "notify" -> {ErrorOf("Webhook delivery failed")}

\* Outcomes of an awaited call: it resolves, or rejects with one of its faults.
Outcomes(op) == {NoThrow} \cup Faults(op)

\* An awaited call of the pipeline as `calls` records it: what was called and
\* what it threw (NoThrow if it resolved).
Call(op, out) == [op |-> op, out |-> out]

\* ------------------------------------------------------------- variables
VARIABLES
    jobs,          \* storage: id -> persisted row
    pendingJobs,   \* the service's Map of in-flight ids (id -> its promise)
    pc,            \* id -> the await processTranscription(job) is suspended at
    job,           \* id -> the record createJob returned (the pipeline's job)
    result,        \* id -> local `result` of processTranscription
    updatedJob,    \* id -> local `updatedJob` of processTranscription
    thrown,        \* id -> the exception in flight inside processTranscription
    tempDir,       \* id -> "none" | "exists" | "removed"
    promise,       \* id -> state of the promise processTranscription returned
    calls,         \* id -> collaborator calls made by the pipeline, in order
    updates,       \* id -> updateJob calls: [update, ok]
    notifyCalls,   \* id -> webhookClient.notify calls: [webhookUrl, job]
    console,       \* values passed to console.error("Background ...")
    clients,       \* callers of waitForJob / getTranscriptionJob
    createCalls,   \* createTranscriptionJob calls: arguments and how they ended
    lastGet,       \* the latest getTranscriptionJob call of a caller that
                   \* did not wait (SpecApi)
    st,            \* the transcription_jobs table with its timestamp columns,
                   \* the database clock and the latest storage call
                   \* (SpecStorage)
    wh,            \* one notify call of a webhook client (SpecWebhook)
    wx,            \* one transcribe call of a whisper client (SpecWhisper)
    fd,            \* one downloadFile call of a file downloader, with the
                   \* file at destPath (SpecDownloader)
    peer,          \* a second service instance over the same storage: its
                   \* own Map of in-flight ids, the ids of the jobs created
                   \* through it, its waitForJob calls (SpecPeer)
    mg             \* a database file: its schema_migrations rows, the
                   \* migrations run on it, the createSqliteStorage calls
                   \* made on it (SpecMigrate)

vars == <<jobs, pendingJobs, peer, pc, job, result, updatedJob, thrown, tempDir,
          promise, calls, updates, notifyCalls, console, clients,
          createCalls, lastGet, st, wh, wx, fd, mg>>

\* Variables that the orchestrator's own steps leave alone.
clientVars == <<wh, wx, fd, mg>>

otherVars == <<lastGet, st, clientVars>>

Created == DOMAIN jobs

\* ---------------------------------------------------------------- storage
\* JavaScript `v ?? d`.
Coalesce(v, d) == IF v = Null \/ v = Undefined THEN d ELSE v

\* parseJob: a database row as a TranscriptionJob (timestamps left out).
parseJob(row) ==
    [id |-> row.id,
     status |-> row.status,
     audioFileUrl |-> row.audio_file_url,
     result |-> Coalesce(row.result, Undefined),
     error |-> Coalesce(row.error, Undefined),
     webhookUrl |-> Coalesce(row.webhook_url, Undefined)]

\* An INSERT that stores the row as already being processed.
createJobStmt_Processing(id, j) ==
    [id |-> id,
     status |-> "processing",
     audio_file_url |-> j.audioFileUrl,
     result |-> Null,
     error |-> Null,
     webhook_url |-> Coalesce(j.webhookUrl, Null)]

\* createJobStmt: the row INSERT ... RETURNING * produces for the params
\* createJob builds from its argument.
createJobStmt(id, j) ==
    [id |-> id,
     status |-> j.status,
     audio_file_url |-> j.audioFileUrl,
     result |-> Null,
     error |-> Null,
     webhook_url |-> Coalesce(j.webhookUrl, Null)]

\* A column assigned its parameter whether or not the parameter is NULL.
CaseNotNull_Overwrite(p, col) == p

\* SQL `CASE WHEN @p IS NOT NULL THEN @p ELSE col END`.
CaseNotNull(p, col) == IF p # Null THEN p ELSE col

\* updateJobStmt: the row UPDATE ... RETURNING * leaves for statement params.
\* An UPDATE that assigns webhook_url from its parameter whether or not the
\* parameter is NULL.
updateJobStmt_AssignsWebhook(row, params) ==
    [row EXCEPT !.status = CaseNotNull(params.status, @),
                !.result = CaseNotNull(params.result, @),
                !.error = CaseNotNull(params.error, @),
                !.webhook_url = params.webhook_url]

updateJobStmt(row, params) ==
    [row EXCEPT !.status = CaseNotNull(params.status, @),
                !.result = CaseNotNull(params.result, @),
                !.error = CaseNotNull(params.error, @),
                !.webhook_url = CaseNotNull(params.webhook_url, @)]

\* The UpdateJobParams that updateJob builds from a Partial<TranscriptionJob>.
UpdateJobParams(update) ==
    [status |-> Coalesce(update.status, Null),
     result |-> Coalesce(update.result, Null),
     error |-> Coalesce(update.error, Null),
     webhook_url |-> Coalesce(update.webhookUrl, Null)]

\* The row an updateJob(id, update) that does not throw leaves in the table.
updateJob(row, update) == updateJobStmt(row, UpdateJobParams(update))

\* The created_at and updated_at columns of an inserted row:
\* strftime('%Y-%m-%d %H:%M:%f', 'now') for both.
Timestamps(now) == [created_at |-> now, updated_at |-> now]

\* new Date(text): the Date object of a timestamp column.
DateOf(ts) == [time |-> ts]

\* parseJob with its createdAt and updatedAt fields.
parseRow(row) ==
    parseJob(row) @@ [createdAt |-> DateOf(row.created_at),
                      updatedAt |-> DateOf(row.updated_at)]

\* An UPDATE that stamps created_at as well as updated_at.
SqliteUpdateRow_StampsCreated(row, update, now) ==
    [updateJob(row, update) EXCEPT !.updated_at = now, !.created_at = now]

\* The row the UPDATE of updateJob leaves: the four columns by updateJobStmt,
\* updated_at at the current time.
SqliteUpdateRow(row, update, now) ==
    [updateJob(row, update) EXCEPT !.updated_at = now]

\* The absence of a TranscriptionJob in a local variable or a return value.
NoJob == [id |-> UnknownId, status |-> Undefined, audioFileUrl |-> Undefined,
          result |-> Undefined, error |-> Undefined, webhookUrl |-> Undefined]

\* getJob answering a missing id with an empty record instead of null.
getJob_NoNull(id) == IF id \in Created THEN <<parseJob(jobs[id])>> ELSE <<NoJob>>

\* getJob(id) as a sequence: empty for null, else the parsed row.
getJob(id) == IF id \in Created THEN <<parseJob(jobs[id])>> ELSE <<>>

\* A Partial<TranscriptionJob> as the pipeline passes it: absent fields are
\* undefined.
Partial(status, res, err) ==
    [status |-> status, result |-> res, error |-> err, webhookUrl |-> Undefined]

\* ------------------------------------------------------------ the service
\* JavaScript truthiness of an optional string (`if (updatedJob.webhookUrl)`).
Truthy(s) == s # Undefined /\ s # Null /\ s # ""

\* The message of whatever was thrown, Error or not.
ErrorMessage_AnyMessage(t) == t.message

\* error instanceof Error ? error.message : "Unknown error occurred"
ErrorMessage(t) == IF t.isError THEN t.message ELSE "Unknown error occurred"

\* The promise of processTranscription itself, without the .catch handler.
ProcessingPromise_NoCatch(p) == p

\* processingPromise = processTranscription(job).catch(...): the handler
\* logs and returns, so a rejection becomes a fulfilment.
ProcessingPromise(p) == IF p = "rejected" THEN "fulfilled" ELSE p

\* A caller: where it is, the id it passed, whether waitForJob found a
\* tracked promise, how waitForJob ended, what getTranscriptionJob returned.
\* inFlight remembers whether the id's pipeline was running when waitForJob
\* was called.
IdleClient == [pc |-> "idle", id |-> UnknownId, tracked |-> FALSE,
               inFlight |-> FALSE, outcome |-> Undefined, observed |-> <<>>]

\* No getTranscriptionJob call yet.
NoGet == [called |-> FALSE, id |-> UnknownId, out |-> NoThrow,
          observed |-> <<>>, rejection |-> NoThrow]

\* No storage call yet.
NoCall == [op |-> "none", id |-> UnknownId, out |-> NoThrow, ret |-> <<>>]

\* `response` before the fetch has settled.
NoResponse == [kind |-> "none"]

\* A call of a promise's resolve or reject.
Settle(state, value) == [state |-> state, value |-> value]

\* A webhook client on which notify has not been called.
NoDelivery ==
    [maxRetries |-> 0, pc |-> "idle", attempt |-> 0, requests |-> <<>>,
     notify |-> [state |-> "none", error |-> NoThrow, after |-> 0]]

\* A whisper client on which transcribe has not been called.
NoTranscription ==
    [maxRetries |-> 0, pc |-> "idle", currentAttempt |-> 0, attempts |-> <<>>,
     settles |-> <<>>]

\* A file downloader on which downloadFile has not been called.
NoDownload ==
    [pc |-> "idle", file |-> FALSE, stream |-> "none", response |-> NoResponse,
     downloadedSize |-> 0, error |-> NoThrow, settled |-> <<>>,
     timer |-> "none", stalled |-> FALSE]

\* The table of a storage just opened: no rows, the clock at its start.
EmptyStore == [rows |-> <<>>, now |-> 0, last |-> NoCall]

\* A path at which no database file exists yet: no schema_migrations row, no
\* migration run, no createSqliteStorage call.
NoDatabase == [versions |-> <<>>, applied |-> <<>>, opens |-> <<>>]

\* A second createTranscriptionService(deps) over the same deps: its own
\* empty Map, nothing created or awaited through it yet.
NoPeer == [pendingJobs |-> {}, jobs |-> {}, waits |-> <<>>]

Init ==
    /\ jobs = <<>>
    /\ pendingJobs = {}
    /\ peer = NoPeer
    /\ pc = [i \in JobIds |-> "none"]
    /\ job = [i \in JobIds |-> NoJob]
    /\ result = [i \in JobIds |-> Undefined]
    /\ updatedJob = [i \in JobIds |-> NoJob]
    /\ thrown = [i \in JobIds |-> NoThrow]
    /\ tempDir = [i \in JobIds |-> "none"]
    /\ promise = [i \in JobIds |-> "none"]
    /\ calls = [i \in JobIds |-> <<>>]
    /\ updates = [i \in JobIds |-> <<>>]
    /\ notifyCalls = [i \in JobIds |-> <<>>]
    /\ console = <<>>
    /\ clients = [c \in ClientIds |-> IdleClient]
    /\ createCalls = <<>>
    /\ lastGet = NoGet
    /\ st = EmptyStore
    /\ wh = NoDelivery
    /\ wx = NoTranscription
    /\ fd = NoDownload
    /\ mg = NoDatabase

\* createTranscriptionJob rejecting with an error of its own instead of the
\* storage error.
createTranscriptionJob_Wrapped(limit, audioFileUrl, webhookUrl) ==
    /\ Len(createCalls) < limit
    /\ \E out \in Outcomes("createJob") :
          LET id == Cardinality(Created) + 1
              row == createJobStmt(id, [status |-> "pending",
                                        audioFileUrl |-> audioFileUrl,
                                        webhookUrl |-> webhookUrl])
                     @@ Timestamps(st.now)
              call == [audioFileUrl |-> audioFileUrl, webhookUrl |-> webhookUrl,
                       out |-> out, returned |-> NoJob,
                       rejection |-> IF out = NoThrow THEN out
                                       ELSE ErrorOf("Failed to create transcription job"),
                       id |-> IF out = NoThrow THEN id ELSE UnknownId]
          IN /\ createCalls' = Append(createCalls, call)
             /\ IF out = NoThrow
                   THEN /\ jobs' = Append(jobs, row)
                        /\ job' = [job EXCEPT ![id] = parseJob(row)]
                        /\ pc' = [pc EXCEPT ![id] = "created"]
                   ELSE UNCHANGED <<jobs, job, pc>>
    /\ UNCHANGED <<otherVars, pendingJobs, peer, result, updatedJob, thrown, tempDir,
                   promise, calls, updates, notifyCalls, console, clients>>

\* createTranscriptionJob up to `await deps.storage.createJob(...)`, as one of
\* at most `limit` calls: the pending record is persisted under a fresh id,
\* or createJob rejects and, there being no catch, createTranscriptionJob
\* rejects with the same value.
createTranscriptionJob(limit, audioFileUrl, webhookUrl) ==
    /\ Len(createCalls) < limit
    /\ \E out \in Outcomes("createJob") :
          LET id == Cardinality(Created) + 1
              row == createJobStmt(id, [status |-> "pending",
                                        audioFileUrl |-> audioFileUrl,
                                        webhookUrl |-> webhookUrl])
                     @@ Timestamps(st.now)
              call == [audioFileUrl |-> audioFileUrl, webhookUrl |-> webhookUrl,
                       out |-> out, rejection |-> out, returned |-> NoJob,
                       id |-> IF out = NoThrow THEN id ELSE UnknownId]
          IN /\ createCalls' = Append(createCalls, call)
             /\ IF out = NoThrow
                   THEN /\ jobs' = Append(jobs, row)
                        /\ job' = [job EXCEPT ![id] = parseJob(row)]
                        /\ pc' = [pc EXCEPT ![id] = "created"]
                   ELSE UNCHANGED <<jobs, job, pc>>
    /\ UNCHANGED <<otherVars, pendingJobs, peer, result, updatedJob, thrown, tempDir,
                   promise, calls, updates, notifyCalls, console, clients>>

\* createTranscriptionJob as Spec calls it.
CreateJob(audioFileUrl, webhookUrl) ==
    createTranscriptionJob(MaxJobs, audioFileUrl, webhookUrl)

\* `return job` of createTranscriptionJob, as createCalls records it.
ReturnJob(id) ==
    [k \in DOMAIN createCalls |->
        IF createCalls[k].id = id
          THEN [createCalls[k] EXCEPT !.returned = job[id]]
          ELSE createCalls[k]]

\* createTranscriptionJob without pendingJobs.set.
StartPipeline_NoSet(id) ==
    /\ pc[id] = "created"
    /\ pc' = [pc EXCEPT ![id] = "createTempDir"]
    /\ promise' = [promise EXCEPT ![id] = "pending"]
    /\ createCalls' = ReturnJob(id)
    /\ UNCHANGED <<otherVars, jobs, pendingJobs, peer, job, result, updatedJob, thrown, tempDir,
                   calls, updates, notifyCalls, console, clients>>

\* createTranscriptionJob after createJob resolved: processTranscription(job)
\* runs up to its first await, the caught promise is stored, job is returned.
StartPipeline(id) ==
    /\ pc[id] = "created"
    /\ pc' = [pc EXCEPT ![id] = "createTempDir"]
    /\ promise' = [promise EXCEPT ![id] = "pending"]
    /\ pendingJobs' = pendingJobs \cup {id}
    /\ peer' = peer
    /\ createCalls' = ReturnJob(id)
    /\ UNCHANGED <<otherVars, jobs, job, result, updatedJob, thrown, tempDir, calls,
                   updates, notifyCalls, console, clients>>

\* An update that lands on the first row of the table whatever the id.
StorageUpdate_FirstRow(id, update, out) ==
    /\ jobs' = IF out = NoThrow
                 THEN [jobs EXCEPT ![1] = SqliteUpdateRow(jobs[1], update,
                                                          st.now)]
                 ELSE jobs
    /\ updates' = [updates EXCEPT
                      ![id] = Append(@, [update |-> update, ok |-> out = NoThrow])]
    /\ calls' = [calls EXCEPT ![id] = Append(@, Call("updateJob", out))]

\* deps.storage.updateJob(id, update) as the pipeline awaits it: the table
\* after the call and the call's record in `updates`.  A rejected call leaves
\* the table as it was.
StorageUpdate(id, update, out) ==
    /\ jobs' = IF out = NoThrow
                 THEN [jobs EXCEPT ![id] = SqliteUpdateRow(jobs[id], update,
                                                           st.now)]
                 ELSE jobs
    /\ updates' = [updates EXCEPT
                      ![id] = Append(@, [update |-> update, ok |-> out = NoThrow])]
    /\ calls' = [calls EXCEPT ![id] = Append(@, Call("updateJob", out))]

\* processTranscription without pendingJobs.delete.
\* A run that ends with an error leaves its promise unsettled.
Finally_LeavesPending(id, out) ==
    /\ pc' = [pc EXCEPT ![id] = "done"]
    /\ pendingJobs' = pendingJobs \ {id}
    /\ peer' = peer
    /\ promise' = [promise EXCEPT
                      ![id] = IF out = NoThrow THEN "fulfilled" ELSE @]
    /\ console' = IF out = NoThrow THEN console ELSE Append(console, out)

Finally_NoDelete(id, out) ==
    /\ pc' = [pc EXCEPT ![id] = "done"]
    /\ pendingJobs' = pendingJobs
    /\ peer' = peer
    /\ promise' = [promise EXCEPT
                      ![id] = IF out = NoThrow THEN "fulfilled" ELSE "rejected"]
    /\ console' = IF out = NoThrow THEN console ELSE Append(console, out)

\* The outer `finally` and the return of processTranscription: the entry is
\* deleted and the promise settles; the .catch handler of
\* createTranscriptionJob logs a rejection.
Finally(id, out) ==
    /\ pc' = [pc EXCEPT ![id] = "done"]
    /\ IF id \in peer.jobs
         THEN /\ peer' = [peer EXCEPT !.pendingJobs = @ \ {id}]
              /\ pendingJobs' = pendingJobs
         ELSE /\ pendingJobs' = pendingJobs \ {id}
              /\ peer' = peer
    /\ promise' = [promise EXCEPT
                      ![id] = IF out = NoThrow THEN "fulfilled" ELSE "rejected"]
    /\ console' = IF out = NoThrow THEN console ELSE Append(console, out)

\* A failed createTempDir that still runs the cleanup.
CreateTempDir_CleansAnyway(id) ==
    /\ pc[id] = "createTempDir"
    /\ \E out \in Outcomes("createTempDir") :
          /\ calls' = [calls EXCEPT ![id] = Append(@, Call("createTempDir", out))]
          /\ IF out = NoThrow
                THEN /\ tempDir' = [tempDir EXCEPT ![id] = "exists"]
                     /\ pc' = [pc EXCEPT ![id] = "updateProcessing"]
                     /\ UNCHANGED thrown
                ELSE /\ thrown' = [thrown EXCEPT ![id] = out]
                     /\ pc' = [pc EXCEPT ![id] = "cleanupTempDir"]
                     /\ UNCHANGED tempDir
    /\ UNCHANGED <<createCalls, otherVars, jobs, pendingJobs, peer, job, result,
                   updatedJob, promise, updates, notifyCalls, console, clients>>

\* A failed createTempDir after which the inner try is entered all the same.
CreateTempDir_Continue(id) ==
    /\ pc[id] = "createTempDir"
    /\ \E out \in Outcomes("createTempDir") :
          /\ calls' = [calls EXCEPT ![id] = Append(@, Call("createTempDir", out))]
          /\ IF out = NoThrow
                THEN /\ tempDir' = [tempDir EXCEPT ![id] = "exists"]
                     /\ pc' = [pc EXCEPT ![id] = "updateProcessing"]
                     /\ UNCHANGED thrown
                ELSE /\ thrown' = [thrown EXCEPT ![id] = out]
                     /\ pc' = [pc EXCEPT ![id] = "updateProcessing"]
                     /\ UNCHANGED tempDir
    /\ UNCHANGED <<createCalls, otherVars, jobs, pendingJobs, peer, job, result, updatedJob, promise,
                   updates, notifyCalls, console, clients>>

\* const tempDir = await createTempDir();
CreateTempDir(id) ==
    /\ pc[id] = "createTempDir"
    /\ \E out \in Outcomes("createTempDir") :
          /\ calls' = [calls EXCEPT ![id] = Append(@, Call("createTempDir", out))]
          /\ IF out = NoThrow
                THEN /\ tempDir' = [tempDir EXCEPT ![id] = "exists"]
                     /\ pc' = [pc EXCEPT ![id] = "updateProcessing"]
                     /\ UNCHANGED thrown
                ELSE /\ thrown' = [thrown EXCEPT ![id] = out]
                     /\ pc' = [pc EXCEPT ![id] = "updateFailed"]
                     /\ UNCHANGED tempDir
    /\ UNCHANGED <<createCalls, otherVars, jobs, pendingJobs, peer, job, result, updatedJob, promise,
                   updates, notifyCalls, console, clients>>

\* A rejected "processing" update swallowed: the pipeline goes on to the
\* download.
UpdateProcessing_Continue(id) ==
    /\ pc[id] = "updateProcessing"
    /\ \E out \in Outcomes("updateJob") :
          /\ StorageUpdate(job[id].id, Partial("processing", Undefined, Undefined),
                           out)
          /\ pc' = [pc EXCEPT ![id] = "downloadFile"]
          /\ UNCHANGED thrown
    /\ UNCHANGED <<createCalls, otherVars, pendingJobs, peer, job, result, updatedJob, tempDir, promise,
                   notifyCalls, console, clients>>

\* await deps.storage.updateJob(job.id, { status: "processing" });
UpdateProcessing(id) ==
    /\ pc[id] = "updateProcessing"
    /\ \E out \in Outcomes("updateJob") :
          /\ StorageUpdate(job[id].id, Partial("processing", Undefined, Undefined),
                           out)
          /\ IF out = NoThrow
                THEN /\ pc' = [pc EXCEPT ![id] = "downloadFile"]
                     /\ UNCHANGED thrown
                ELSE /\ thrown' = [thrown EXCEPT ![id] = out]
                     /\ pc' = [pc EXCEPT ![id] = "cleanupTempDir"]
    /\ UNCHANGED <<createCalls, otherVars, pendingJobs, peer, job, result, updatedJob, tempDir, promise,
                   notifyCalls, console, clients>>

\* A rejected download swallowed: the pipeline goes on to transcribe.
DownloadFile_Continue(id) ==
    /\ pc[id] = "downloadFile"
    /\ \E out \in Outcomes("downloadFile") :
          /\ calls' = [calls EXCEPT ![id] = Append(@, Call("downloadFile", out))]
          /\ pc' = [pc EXCEPT ![id] = "transcribe"]
          /\ UNCHANGED thrown
    /\ UNCHANGED <<createCalls, otherVars, jobs, pendingJobs, peer, job, result,
                   updatedJob, tempDir, promise, updates, notifyCalls, console,
                   clients>>

\* await deps.fileDownloader.downloadFile(job.audioFileUrl, audioFilePath);
DownloadFile(id) ==
    /\ pc[id] = "downloadFile"
    /\ \E out \in Outcomes("downloadFile") :
          /\ calls' = [calls EXCEPT ![id] = Append(@, Call("downloadFile", out))]
          /\ IF out = NoThrow
                THEN /\ pc' = [pc EXCEPT ![id] = "transcribe"]
                     /\ UNCHANGED thrown
                ELSE /\ thrown' = [thrown EXCEPT ![id] = out]
                     /\ pc' = [pc EXCEPT ![id] = "cleanupTempDir"]
    /\ UNCHANGED <<createCalls, otherVars, jobs, pendingJobs, peer, job, result, updatedJob, tempDir, promise,
                   updates, notifyCalls, console, clients>>

\* const result = await deps.whisperClient.transcribe(audioFilePath);
Transcribe(id) ==
    /\ pc[id] = "transcribe"
    /\ \/ \E text \in Texts :
             /\ calls' = [calls EXCEPT
                            ![id] = Append(@, Call("transcribe", NoThrow))]
             /\ result' = [result EXCEPT ![id] = text]
             /\ pc' = [pc EXCEPT ![id] = "updateCompleted"]
             /\ UNCHANGED thrown
       \/ \E out \in Faults("transcribe") :
             /\ calls' = [calls EXCEPT ![id] = Append(@, Call("transcribe", out))]
             /\ thrown' = [thrown EXCEPT ![id] = out]
             /\ pc' = [pc EXCEPT ![id] = "cleanupTempDir"]
             /\ UNCHANGED result
    /\ UNCHANGED <<createCalls, otherVars, jobs, pendingJobs, peer, job, updatedJob, tempDir, promise,
                   updates, notifyCalls, console, clients>>

\* The webhook sent whether or not a URL was given.
AfterCompleted_Always(u) == "notify"

\* The step after a resolved "completed" update: notify only if
\* updatedJob.webhookUrl is truthy, else leave the inner try.
AfterCompleted(u) == IF Truthy(u.webhookUrl) THEN "notify" ELSE "cleanupTempDir"

\* The "completed" update without the result.
UpdateCompleted_NoResult(id) ==
    /\ pc[id] = "updateCompleted"
    /\ \E out \in Outcomes("updateJob") :
          /\ StorageUpdate(job[id].id, Partial("completed", Undefined, Undefined),
                           out)
          /\ IF out = NoThrow
                THEN /\ updatedJob' = [updatedJob EXCEPT
                                         ![id] = parseJob(jobs'[job[id].id])]
                     /\ pc' = [pc EXCEPT ![id] = AfterCompleted(updatedJob'[id])]
                     /\ UNCHANGED thrown
                ELSE /\ thrown' = [thrown EXCEPT ![id] = out]
                     /\ pc' = [pc EXCEPT ![id] = "cleanupTempDir"]
                     /\ UNCHANGED updatedJob
    /\ UNCHANGED <<createCalls, otherVars, pendingJobs, peer, job, result, tempDir,
                   promise, notifyCalls, console, clients>>

\* const updatedJob = await deps.storage.updateJob(job.id,
\*                                   { status: "completed", result });
UpdateCompleted(id) ==
    /\ pc[id] = "updateCompleted"
    /\ \E out \in Outcomes("updateJob") :
          /\ StorageUpdate(job[id].id, Partial("completed", result[id], Undefined),
                           out)
          /\ IF out = NoThrow
                THEN /\ updatedJob' = [updatedJob EXCEPT
                                         ![id] = parseJob(jobs'[job[id].id])]
                     /\ pc' = [pc EXCEPT ![id] = AfterCompleted(updatedJob'[id])]
                     /\ UNCHANGED thrown
                ELSE /\ thrown' = [thrown EXCEPT ![id] = out]
                     /\ pc' = [pc EXCEPT ![id] = "cleanupTempDir"]
                     /\ UNCHANGED updatedJob
    /\ UNCHANGED <<createCalls, otherVars, pendingJobs, peer, job, result, tempDir, promise, notifyCalls,
                   console, clients>>

\* notify called with the record processTranscription was given instead of
\* the one the "completed" update returned.
Notify_StaleJob(id) ==
    /\ pc[id] = "notify"
    /\ \E out \in Outcomes("notify") :
          /\ calls' = [calls EXCEPT ![id] = Append(@, Call("notify", out))]
          /\ notifyCalls' = [notifyCalls EXCEPT
                ![id] = Append(@, [webhookUrl |-> job[id].webhookUrl,
                                   job |-> job[id],
                                   ok |-> out = NoThrow])]
          /\ thrown' = [thrown EXCEPT ![id] = out]
          /\ pc' = [pc EXCEPT ![id] = "cleanupTempDir"]
    /\ UNCHANGED <<createCalls, otherVars, jobs, pendingJobs, peer, job, result, updatedJob, tempDir, promise,
                   updates, console, clients>>

\* await deps.webhookClient.notify(updatedJob.webhookUrl, updatedJob);
\* A rejection is an exception of the inner try like any other.
Notify(id) ==
    /\ pc[id] = "notify"
    /\ \E out \in Outcomes("notify") :
          /\ calls' = [calls EXCEPT ![id] = Append(@, Call("notify", out))]
          /\ notifyCalls' = [notifyCalls EXCEPT
                ![id] = Append(@, [webhookUrl |-> updatedJob[id].webhookUrl,
                                   job |-> updatedJob[id],
                                   ok |-> out = NoThrow])]
          /\ thrown' = [thrown EXCEPT ![id] = out]
          /\ pc' = [pc EXCEPT ![id] = "cleanupTempDir"]
    /\ UNCHANGED <<createCalls, otherVars, jobs, pendingJobs, peer, job, result, updatedJob, tempDir, promise,
                   updates, console, clients>>

\* inner finally: await cleanupTempDir(tempDir).  If it resolves, the
\* exception in flight (if any) goes on to the catch block; if it rejects,
\* its own exception does.  Without an exception the function returns.
CleanupTempDir(id) ==
    /\ pc[id] = "cleanupTempDir"
    /\ \E out \in Outcomes("cleanupTempDir") :
          /\ calls' = [calls EXCEPT ![id] = Append(@, Call("cleanupTempDir", out))]
          /\ tempDir' = [tempDir EXCEPT
                           ![id] = IF out = NoThrow THEN "removed" ELSE @]
          /\ LET err == IF out = NoThrow THEN thrown[id] ELSE out
             IN /\ thrown' = [thrown EXCEPT ![id] = err]
                /\ IF err = NoThrow
                      THEN Finally(id, NoThrow)
                      ELSE /\ pc' = [pc EXCEPT ![id] = "updateFailed"]
                           /\ UNCHANGED <<pendingJobs, peer, promise, console>>
    /\ UNCHANGED <<createCalls, otherVars, jobs, job, result, updatedJob, updates, notifyCalls, clients>>

\* The catch block with the entry deleted only if its update resolved.
UpdateFailed_KeepOnThrow(id) ==
    /\ pc[id] = "updateFailed"
    /\ \E out \in Outcomes("updateJob") :
          /\ StorageUpdate(job[id].id,
                           Partial("failed", Undefined, ErrorMessage(thrown[id])),
                           out)
          /\ IF out = NoThrow THEN Finally(id, out) ELSE Finally_NoDelete(id, out)
    /\ UNCHANGED <<createCalls, otherVars, job, result, updatedJob, thrown, tempDir, notifyCalls, clients>>

\* catch (error): await deps.storage.updateJob(job.id,
\*                   { status: "failed", error: <message of error> });
\* then the outer finally, whether the update resolved or rejected.
UpdateFailed_ErrorOnly(id) ==
    /\ pc[id] = "updateFailed"
    /\ \E out \in Outcomes("updateJob") :
          /\ StorageUpdate(job[id].id,
                           Partial(Undefined, Undefined, ErrorMessage(thrown[id])),
                           out)
          /\ Finally(id, out)
    /\ UNCHANGED <<createCalls, otherVars, job, result, updatedJob, thrown, tempDir, notifyCalls, clients>>

UpdateFailed(id) ==
    /\ pc[id] = "updateFailed"
    /\ \E out \in Outcomes("updateJob") :
          /\ StorageUpdate(job[id].id,
                           Partial("failed", Undefined, ErrorMessage(thrown[id])),
                           out)
          /\ Finally(id, out)
    /\ UNCHANGED <<createCalls, otherVars, job, result, updatedJob, thrown, tempDir, notifyCalls, clients>>

\* ---------------------------------------------------------------- callers
\* Ids a caller can hold: those createTranscriptionJob has returned, and an
\* id that was never created.
Returned == {i \in JobIds : pc[i] \notin {"none", "created"}}
KnownIds == Returned \cup {UnknownId}

pipelineVars == <<jobs, pendingJobs, peer, pc, job, result, updatedJob, thrown,
                  tempDir, promise, calls, updates, notifyCalls, console>>

PcOf(id) == IF id \in JobIds THEN pc[id] ELSE "none"

\* processTranscription(job) for this id has been called and has not returned.
InFlight(id) == PcOf(id) \notin {"none", "created", "done"}

\* Callers are numbered in the order of their calls: caller c calls once
\* every caller before it has called.
NextCaller(c) ==
    /\ clients[c].pc = "idle"
    /\ \A d \in ClientIds : d < c => clients[d].pc # "idle"

\* waitForJob without the await: it returns at once in both branches.
WaitForJob_NoAwait(c, id) ==
    /\ NextCaller(c)
    /\ clients' = [clients EXCEPT ![c] =
          [@ EXCEPT !.pc = "returned", !.id = id, !.inFlight = InFlight(id),
                    !.tracked = id \in pendingJobs, !.outcome = "ok"]]
    /\ UNCHANGED <<pipelineVars, createCalls, otherVars>>

\* waitForJob(jobId) up to its await: without a tracked promise it returns at
\* once, with one it suspends on it.
WaitForJob(c, id) ==
    /\ NextCaller(c)
    /\ clients' = [clients EXCEPT ![c] =
          IF id \in pendingJobs
            THEN [@ EXCEPT !.pc = "awaiting", !.id = id, !.inFlight = InFlight(id),
                           !.tracked = TRUE]
            ELSE [@ EXCEPT !.pc = "returned", !.id = id, !.inFlight = InFlight(id),
                           !.outcome = "ok"]]
    /\ UNCHANGED <<pipelineVars, createCalls, otherVars>>

\* What `await p` does with a settled promise: go on, or throw.
Await(p) == IF p = "rejected" THEN "threw" ELSE "ok"

\* waitForJob resumes once the tracked processingPromise has settled.
WaitForJobResume(c) ==
    /\ clients[c].pc = "awaiting"
    /\ LET p == ProcessingPromise(promise[clients[c].id])
       IN /\ p \in {"fulfilled", "rejected"}
          /\ clients' = [clients EXCEPT ![c] =
                           [@ EXCEPT !.pc = "returned", !.outcome = Await(p)]]
    /\ UNCHANGED <<pipelineVars, createCalls, otherVars>>

\* getTranscriptionJob(jobId): deps.storage.getJob(jobId), called by a caller
\* whose waitForJob(jobId) has returned.
GetTranscriptionJob(c) ==
    /\ clients[c].pc = "returned"
    /\ clients' = [clients EXCEPT ![c] =
                     [@ EXCEPT !.pc = "got", !.observed = getJob(clients[c].id)]]
    /\ UNCHANGED <<pipelineVars, createCalls, otherVars>>

Next ==
    \/ \E a \in AudioUrls, w \in WebhookUrls : CreateJob(a, w)
    \/ \E id \in JobIds : StartPipeline(id)
    \/ \E id \in JobIds : CreateTempDir(id)
    \/ \E id \in JobIds : UpdateProcessing(id)
    \/ \E id \in JobIds : DownloadFile(id)
    \/ \E id \in JobIds : Transcribe(id)
    \/ \E id \in JobIds : UpdateCompleted(id)
    \/ \E id \in JobIds : Notify(id)
    \/ \E id \in JobIds : CleanupTempDir(id)
    \/ \E id \in JobIds : UpdateFailed(id)
    \/ \E c \in ClientIds : \E id \in KnownIds : WaitForJob(c, id)
    \/ \E c \in ClientIds : WaitForJobResume(c)
    \/ \E c \in ClientIds : GetTranscriptionJob(c)

Spec == Init /\ [][Next]_vars

\* The next step of the run of processTranscription for id: the call of
\* processTranscription itself, or the continuation after the await the run
\* is at.
PipelineStep(id) ==
    \/ StartPipeline(id)
    \/ CreateTempDir(id)
    \/ UpdateProcessing(id)
    \/ DownloadFile(id)
    \/ Transcribe(id)
    \/ UpdateCompleted(id)
    \/ Notify(id)
    \/ CleanupTempDir(id)
    \/ UpdateFailed(id)

\* Every collaborator call settles and the event loop runs the continuation
\* of every settled await: a run that has a next step takes it, and a
\* waitForJob whose promise has settled resumes.  Callers are not obliged to
\* call anything.
Fairness ==
    /\ \A id \in JobIds : WF_vars(PipelineStep(id))
    /\ \A c \in ClientIds : WF_vars(WaitForJobResume(c))

\* The service with callers that create jobs and wait for the jobs they
\* were given.
NextFair ==
    \/ \E a \in AudioUrls, w \in WebhookUrls : CreateJob(a, w)
    \/ \E id \in JobIds : PipelineStep(id)
    \/ \E c \in ClientIds : \E id \in Returned : WaitForJob(c, id)
    \/ \E c \in ClientIds : WaitForJobResume(c)

SpecFair == Init /\ [][NextFair]_vars /\ Fairness

\* ------------------------------------------------- create and get, freely
\* audioFileUrl as given to createTranscriptionJob: any string, the empty
\* one included (the function has no check of its arguments).
ApiAudioUrls == AudioUrls \cup {""}

\* getTranscriptionJob(jobId) at any moment: `return deps.storage.getJob(jobId)`
\* resolves with the record or null, or rejects with what getJob rejected with.
getTranscriptionJob(id) ==
    /\ \E out \in Outcomes("getJob") :
          lastGet' = [called |-> TRUE, id |-> id, out |-> out,
                      observed |-> IF out = NoThrow THEN getJob(id) ELSE <<>>,
                      rejection |-> out]
    /\ UNCHANGED <<pipelineVars, createCalls, clients, st, clientVars>>

NextApi ==
    \/ \E a \in ApiAudioUrls, w \in WebhookUrls : CreateJob(a, w)
    \/ \E id \in JobIds : StartPipeline(id)
    \/ \E id \in JobIds : CreateTempDir(id)
    \/ \E id \in JobIds : UpdateProcessing(id)
    \/ \E id \in JobIds : DownloadFile(id)
    \/ \E id \in JobIds : Transcribe(id)
    \/ \E id \in JobIds : UpdateCompleted(id)
    \/ \E id \in JobIds : Notify(id)
    \/ \E id \in JobIds : CleanupTempDir(id)
    \/ \E id \in JobIds : UpdateFailed(id)
    \/ \E id \in KnownIds : getTranscriptionJob(id)

SpecApi == Init /\ [][NextApi]_vars

\* ---------------------------------------------------- the storage alone
\* A Partial<TranscriptionJob> with all four updatable fields spelled out.
Update(status, res, err, webhookUrl) ==
    [status |-> status, result |-> res, error |-> err, webhookUrl |-> webhookUrl]

\* Partial<TranscriptionJob> values given to updateJob: nothing provided,
\* each field alone, result as null, and several fields at once.
StorageUpdates ==
    {Update(Undefined, Undefined, Undefined, Undefined),
     Update("completed", Undefined, Undefined, Undefined),
     Update(Undefined, "hello", Undefined, Undefined),
     Update(Undefined, Null, Undefined, Undefined),
     Update(Undefined, Undefined, "boom", Undefined),
     Update(Undefined, Undefined, Undefined, "https://example.com/other"),
     Update("completed", Null, "boom", Undefined),
     Update("completed", "hello", "boom", "https://example.com/other")}

\* An id as the text of a template literal (ids are single digits here).
IdText(id) == <<"0", "1", "2", "3", "4", "5", "6", "7", "8", "9">>[id + 1]

\* The not-found error wrapped like a database failure, as it would be
\* without the `includes("not found")` test of the catch block.
NotFound_Wrapped(id) == ErrorOf("Failed to update job")

\* What updateJob throws when checkJobExistsStmt finds no row:
\* new Error(`Job with id ${id} not found`).
NotFound(id) == ErrorOf("Job with id " \o IdText(id) \o " not found")

\* A storage call as `st.last` records it: the operation, its id argument
\* (for createJob the id of the inserted row), what it threw, and what it
\* resolved with (empty for null, and when it rejected).
StorageCall(op, id, out, ret) == [op |-> op, id |-> id, out |-> out, ret |-> ret]

\* What getJob(id) resolves with on a table: the parsed row, or null (empty).
SqliteGetRow(rows, id) ==
    IF id \in DOMAIN rows THEN <<parseRow(rows[id])>> ELSE <<>>

\* createJob resolving with the job it was given instead of the inserted row.
SqliteCreateJob_Echo(id, j) ==
    /\ IF id \in DOMAIN st.rows
         THEN st' = [st EXCEPT
                       !.last = StorageCall("createJob", UnknownId,
                                            ErrorOf("Failed to create job"),
                                            <<>>)]
         ELSE /\ id = Len(st.rows) + 1
              /\ Len(st.rows) < MaxJobs
              /\ st' = [st EXCEPT
                          !.rows = Append(@, createJobStmt(id, j)
                                               @@ Timestamps(st.now)),
                          !.last = StorageCall("createJob", id, NoThrow, <<j>>)]
    /\ UNCHANGED <<pipelineVars, createCalls, clients, lastGet, clientVars>>

\* storage.createJob(job) when lower(hex(randomblob(16))) gives id:
\* INSERT ... RETURNING * with both timestamps at the current time.  A new id
\* is named by the next position of the table; the id of an existing row
\* violates the PRIMARY KEY of the table, the INSERT fails and createJob
\* rethrows it as SqliteError("Failed to create job").
SqliteCreateJob(id, j) ==
    /\ IF id \in DOMAIN st.rows
         THEN st' = [st EXCEPT
                       !.last = StorageCall("createJob", UnknownId,
                                            ErrorOf("Failed to create job"),
                                            <<>>)]
         ELSE /\ id = Len(st.rows) + 1
              /\ Len(st.rows) < MaxJobs
              /\ LET row == createJobStmt(id, j) @@ Timestamps(st.now)
                 IN st' = [st EXCEPT
                             !.rows = Append(@, row),
                             !.last = StorageCall("createJob", id, NoThrow,
                                                  <<parseRow(row)>>)]
    /\ UNCHANGED <<pipelineVars, createCalls, clients, lastGet, clientVars>>

\* storage.updateJob(id, update): a missing id throws NotFound; otherwise the
\* UPDATE is made, or the database fails and the row stays as it was.
SqliteUpdateJob(id, update) ==
    /\ IF id \notin DOMAIN st.rows
         THEN st' = [st EXCEPT
                       !.last = StorageCall("updateJob", id, NotFound(id), <<>>)]
         ELSE \E out \in Outcomes("updateJob") :
                IF out = NoThrow
                  THEN LET row == SqliteUpdateRow(st.rows[id], update, st.now)
                       IN st' = [st EXCEPT
                                   !.rows = [@ EXCEPT ![id] = row],
                                   !.last = StorageCall("updateJob", id, out,
                                                        <<parseRow(row)>>)]
                  ELSE st' = [st EXCEPT
                                !.last = StorageCall("updateJob", id, out, <<>>)]
    /\ UNCHANGED <<pipelineVars, createCalls, clients, lastGet, clientVars>>

\* storage.getJob(id): a read of the table, or the database fails and getJob
\* rejects with SqliteError("Failed to get job").
SqliteGetJob(id) ==
    /\ \E out \in Outcomes("getJob") :
          st' = [st EXCEPT
                   !.last = StorageCall("getJob", id, out,
                                        IF out = NoThrow
                                          THEN SqliteGetRow(st.rows, id)
                                          ELSE <<>>)]
    /\ UNCHANGED <<pipelineVars, createCalls, clients, lastGet, clientVars>>

\* Time passes on the database clock.
ClockTick ==
    /\ st.now < MaxClock
    /\ st' = [st EXCEPT !.now = @ + 1]
    /\ UNCHANGED <<pipelineVars, createCalls, clients, lastGet, clientVars>>

NextStorage ==
    \/ \E a \in AudioUrls, w \in WebhookUrls :
          SqliteCreateJob(Len(st.rows) + 1,
                          [status |-> "pending", audioFileUrl |-> a,
                           webhookUrl |-> w])
    \/ \E id \in 1..(Len(st.rows) + 1), update \in StorageUpdates :
          SqliteUpdateJob(id, update)
    \/ ClockTick

SpecStorage == Init /\ [][NextStorage]_vars

\* The storage under createJob with any id drawn, getJob and the updates the
\* pipeline makes on completion and on failure.
ReadUpdates ==
    {Update("completed", "hello", Undefined, Undefined),
     Update("failed", Undefined, "boom", Undefined)}

NextStorageRead ==
    \/ \E id \in 1..(Len(st.rows) + 1), a \in AudioUrls, w \in WebhookUrls :
          SqliteCreateJob(id, [status |-> "pending", audioFileUrl |-> a,
                               webhookUrl |-> w])
    \/ \E id \in 1..(Len(st.rows) + 1), update \in ReadUpdates :
          SqliteUpdateJob(id, update)
    \/ \E id \in 1..(Len(st.rows) + 1) : SqliteGetJob(id)
    \/ ClockTick

SpecStorageRead == Init /\ [][NextStorageRead]_vars

\* ------------------------------------------------ several jobs in flight
\* One more createTranscriptionJob call than in Spec, and no callers of
\* waitForJob: the pipelines of the jobs interleave at their awaits.  Every
\* job has a webhook, so that every step of the pipeline can run for it.
MultiWebhookUrls == WebhookUrls \ {Undefined}

NextMulti ==
    \/ \E a \in AudioUrls, w \in MultiWebhookUrls :
          createTranscriptionJob(MaxJobs + 1, a, w)
    \/ \E id \in JobIds : StartPipeline(id)
    \/ \E id \in JobIds : CreateTempDir(id)
    \/ \E id \in JobIds : UpdateProcessing(id)
    \/ \E id \in JobIds : DownloadFile(id)
    \/ \E id \in JobIds : Transcribe(id)
    \/ \E id \in JobIds : UpdateCompleted(id)
    \/ \E id \in JobIds : Notify(id)
    \/ \E id \in JobIds : CleanupTempDir(id)
    \/ \E id \in JobIds : UpdateFailed(id)

SpecMulti == Init /\ [][NextMulti]_vars

\* ------------------------------------------------- two service instances

\* The second half of createTranscriptionJob called on the second instance:
\* processTranscription(job) starts and the promise goes into that
\* instance's Map.
PeerStartPipeline_OneMap(id) ==
    /\ pc[id] = "created"
    /\ pc' = [pc EXCEPT ![id] = "createTempDir"]
    /\ promise' = [promise EXCEPT ![id] = "pending"]
    /\ pendingJobs' = pendingJobs \cup {id}
    /\ peer' = [peer EXCEPT !.pendingJobs = @ \cup {id}, !.jobs = @ \cup {id}]
    /\ createCalls' = ReturnJob(id)
    /\ UNCHANGED <<otherVars, jobs, job, result, updatedJob, thrown, tempDir,
                   calls, updates, notifyCalls, console, clients>>

PeerStartPipeline(id) ==
    /\ pc[id] = "created"
    /\ pc' = [pc EXCEPT ![id] = "createTempDir"]
    /\ promise' = [promise EXCEPT ![id] = "pending"]
    /\ peer' = [peer EXCEPT !.pendingJobs = @ \cup {id}, !.jobs = @ \cup {id}]
    /\ createCalls' = ReturnJob(id)
    /\ UNCHANGED <<otherVars, jobs, pendingJobs, job, result, updatedJob, thrown,
                   tempDir, calls, updates, notifyCalls, console, clients>>

\* waitForJob(id) called on the second instance: pendingJobs.get(id) on its
\* own Map; the call awaits what it finds and returns at once when it finds
\* nothing.  Each call records whether a run for id was in flight and, in
\* `first`, whether the first instance's Map held id.
PeerWaitForJob(id) ==
    /\ Len(peer.waits) < MaxClients
    /\ peer' = [peer EXCEPT !.waits =
                   Append(@, [id |-> id,
                              tracked |-> id \in peer.pendingJobs,
                              inFlight |-> InFlight(id),
                              first |-> id \in pendingJobs,
                              pc |-> IF id \in peer.pendingJobs
                                       THEN "awaiting" ELSE "returned"])]
    /\ UNCHANGED <<jobs, pendingJobs, pc, job, result, updatedJob, thrown,
                   tempDir, promise, calls, updates, notifyCalls, console,
                   clients, createCalls, otherVars>>

\* A waitForJob of the second instance resumes once the promise it awaits
\* has settled.
PeerWaitForJobResume(k) ==
    /\ k \in DOMAIN peer.waits
    /\ peer.waits[k].pc = "awaiting"
    /\ ProcessingPromise(promise[peer.waits[k].id]) \in {"fulfilled", "rejected"}
    /\ peer' = [peer EXCEPT !.waits[k].pc = "returned"]
    /\ UNCHANGED <<jobs, pendingJobs, pc, job, result, updatedJob, thrown,
                   tempDir, promise, calls, updates, notifyCalls, console,
                   clients, createCalls, otherVars>>

\* Two instances made from the same deps: jobs are created through either,
\* every run goes its way, and callers wait on the second instance.
NextPeer ==
    \/ \E a \in AudioUrls, w \in MultiWebhookUrls : CreateJob(a, w)
    \/ \E id \in JobIds : StartPipeline(id)
    \/ \E id \in JobIds : PeerStartPipeline(id)
    \/ \E id \in JobIds : CreateTempDir(id)
    \/ \E id \in JobIds : UpdateProcessing(id)
    \/ \E id \in JobIds : DownloadFile(id)
    \/ \E id \in JobIds : Transcribe(id)
    \/ \E id \in JobIds : UpdateCompleted(id)
    \/ \E id \in JobIds : Notify(id)
    \/ \E id \in JobIds : CleanupTempDir(id)
    \/ \E id \in JobIds : UpdateFailed(id)
    \/ \E id \in Returned : PeerWaitForJob(id)
    \/ \E k \in 1..MaxClients : PeerWaitForJobResume(k)

SpecPeer == Init /\ [][NextPeer]_vars

\* ------------------------------------------------------ the webhook client
\* What one fetch of deliverWebhook ends in: a response with its status, or
\* a rejection.  fetch rejects with a TypeError (network failure) or a
\* DOMException (the AbortController fired after config.timeout).
FetchOutcomes ==
    {[kind |-> "response", status |-> 200],
     [kind |-> "response", status |-> 429],
     [kind |-> "response", status |-> 500],
     [kind |-> "throw", class |-> "TypeError"],
     [kind |-> "throw", class |-> "DOMException"]}

\* response.ok
Ok(out) == out.kind = "response" /\ out.status \in 200..299

\* A status code as the text of a template literal.
StatusText(status) ==
    IF status = 400 THEN "400" ELSE IF status = 500 THEN "500" ELSE "429"

\* `HTTP ${response.status}: ${response.statusText}` of the responses above
\* that is neither ok nor a 429.
StatusLine(status) ==
    IF status = 500 THEN "HTTP 500: Internal Server Error" ELSE "HTTP error"

WebhookDeliveryError(message, code, attempt, statusCode, cause) ==
    [isError |-> TRUE, name |-> "WebhookDeliveryError", message |-> message,
     code |-> code, attempt |-> attempt, statusCode |-> statusCode,
     cause |-> cause]

\* The value the catch block of deliverWebhook receives after a fetch that
\* did not end in an ok response.
CaughtError(out, attempt) ==
    IF out.kind = "response"
      THEN IF out.status = 429
             THEN WebhookDeliveryError("Rate limit exceeded", "RATE_LIMITED",
                                       attempt, out.status, Undefined)
             ELSE WebhookDeliveryError(StatusLine(out.status),
                                       "DELIVERY_FAILED", attempt, out.status,
                                       Undefined)
      ELSE [isError |-> TRUE, name |-> out.class, message |-> "fetch failed"]

\* error instanceof WebhookDeliveryError || TypeError || DOMException
Retryable(error) ==
    error.name \in {"WebhookDeliveryError", "TypeError", "DOMException"}

\* What deliverWebhook throws once it does not retry.
Rethrown(error, attempt) ==
    IF error.name = "WebhookDeliveryError"
      THEN error
      ELSE WebhookDeliveryError(error.message, "DELIVERY_FAILED", attempt,
                                Undefined, error)

\* The promise notify returned, settled after `after` requests.
Settled(state, error, after) ==
    [state |-> state, error |-> error, after |-> after]

\* createWebhookClient({maxRetries}) and notify(webhookUrl, job): the queue
\* starts deliverWebhook(webhookUrl, payload) with attempt = 1, which runs up
\* to its fetch.
WebhookNotify(maxRetries) ==
    /\ wh.pc = "idle"
    /\ wh' = [NoDelivery EXCEPT !.maxRetries = maxRetries,
                                !.pc = "fetch",
                                !.attempt = 1,
                                !.notify = Settled("pending", NoThrow, 0)]
    /\ UNCHANGED <<pipelineVars, createCalls, clients, lastGet, st, wx, fd, mg>>

\* The fetch of deliverWebhook settles, and deliverWebhook runs on to its
\* return, to its throw, or to the backoff delay before the next attempt.
\* The queue hands the outcome of deliverWebhook to notify's promise unless
\* that promise is settled already.
WebhookFetch(out) ==
    /\ wh.pc = "fetch"
    /\ (wh.attempt = 1 /\ wh.notify.state # "pending") =>
           out = [kind |-> "throw", class |-> "DOMException"]
    /\ LET requests == Append(wh.requests, [attempt |-> wh.attempt, out |-> out])
           error == CaughtError(out, wh.attempt)
           pass(state, e) == IF wh.notify.state = "pending"
                               THEN Settled(state, e, Len(requests))
                               ELSE wh.notify
       IN IF Ok(out)
            THEN wh' = [wh EXCEPT !.requests = requests,
                                  !.pc = "done",
                                  !.notify = pass("resolved", NoThrow)]
            ELSE IF wh.attempt < wh.maxRetries /\ Retryable(error)
                   THEN wh' = [wh EXCEPT !.requests = requests,
                                         !.pc = "delay"]
                   ELSE wh' = [wh EXCEPT
                                 !.requests = requests,
                                 !.pc = "done",
                                 !.notify = pass("rejected",
                                                 Rethrown(error, wh.attempt))]
    /\ UNCHANGED <<pipelineVars, createCalls, clients, lastGet, st, wx, fd, mg>>

\* The backoff delay is over: deliverWebhook(webhookUrl, payload, attempt + 1).
WebhookDelay ==
    /\ wh.pc = "delay"
    /\ wh' = [wh EXCEPT !.pc = "fetch", !.attempt = @ + 1]
    /\ UNCHANGED <<pipelineVars, createCalls, clients, lastGet, st, wx, fd, mg>>

\* The queue was made with timeout: config.timeout and throwOnTimeout: false,
\* and notify adds its task with the same timeout: once that time has passed
\* with deliverWebhook still running, the promise notify returned resolves
\* with undefined and deliverWebhook runs on.  The first fetch is aborted
\* after the same time, so during the first attempt the timer can fire only
\* together with that abort.
QueueTimeout ==
    /\ wh.pc \in {"fetch", "delay"}
    /\ wh.notify.state = "pending"
    /\ wh' = [wh EXCEPT !.notify = Settled("resolved", NoThrow, Len(wh.requests))]
    /\ UNCHANGED <<pipelineVars, createCalls, clients, lastGet, st, wx, fd, mg>>

NextWebhook ==
    \/ \E maxRetries \in 0..MaxRetries : WebhookNotify(maxRetries)
    \/ \E out \in FetchOutcomes : WebhookFetch(out)
    \/ WebhookDelay
    \/ QueueTimeout

SpecWebhook == Init /\ [][NextWebhook]_vars

\* ------------------------------------------------------- the whisper client
\* What one attempt of transcribe ends in: a response (ok with a body that
\* has a text or has none, or 400, 429, 500), a rejected fetch, or a failure
\* to read the audio file, which reaches the catch block with the code of the
\* file system error.
ApiOutcomes ==
    {[kind |-> "response", status |-> 200, text |-> t] :
        t \in {"hello", "world", Undefined}}
    \cup {[kind |-> "response", status |-> s, text |-> Undefined] :
             s \in {400, 429, 500}}
    \cup {[kind |-> "throw", code |-> c] : c \in {Undefined, "ENOENT"}}

WhisperError(message, code, status, cause) ==
    [isError |-> TRUE, name |-> "WhisperError", message |-> message,
     code |-> code, status |-> status, cause |-> cause]

\* The attempt got as far as resolve(result.text).
Transcribed(out) == Ok(out) /\ out.text # Undefined

\* The value the catch block of an attempt receives.
AttemptError(out) ==
    IF out.kind = "throw"
      THEN [isError |-> TRUE, name |-> "FetchError", message |-> "fetch failed",
            code |-> out.code]
      ELSE IF Ok(out)
             THEN WhisperError("Invalid API response format",
                               "INVALID_RESPONSE", out.status, Undefined)
             ELSE IF out.status = 429
                    THEN WhisperError("Rate limit exceeded",
                                      "RATE_LIMIT_EXCEEDED", out.status,
                                      Undefined)
                    ELSE WhisperError("HTTP error " \o StatusText(out.status),
                                      "API_ERROR", out.status, Undefined)

\* "Don't retry certain errors": a FileTooLargeError, or an Error whose code
\* is ENOENT or EACCES.
NotRetried(error) ==
    \/ error.name = "FileTooLargeError"
    \/ error.code \in {"ENOENT", "EACCES"}

\* The rejection after the last retry.
MaxRetriesExceeded(maxRetries, error) ==
    WhisperError("Failed to transcribe audio after " \o IdText(maxRetries)
                     \o " retries",
                 "MAX_RETRIES_EXCEEDED", 400, error)

\* createWhisperClient({maxRetries}) and transcribe(audioFilePath) up to the
\* first attempt: the size check either passes, or throws FileTooLargeError,
\* or stat fails and transcribe throws FILE_READ_ERROR.
WhisperTranscribe(maxRetries, stat) ==
    /\ wx.pc = "idle"
    /\ wx' = IF stat = "ok"
               THEN [NoTranscription EXCEPT !.maxRetries = maxRetries,
                                            !.pc = "attempt",
                                            !.currentAttempt = 1]
               ELSE [NoTranscription EXCEPT
                       !.maxRetries = maxRetries,
                       !.pc = "done",
                       !.settles =
                          <<Settle("rejected",
                                   IF stat = "tooLarge"
                                     THEN [WhisperError("File size exceeds maximum size",
                                                        "FILE_TOO_LARGE",
                                                        Undefined, Undefined)
                                             EXCEPT !.name = "FileTooLargeError"]
                                     ELSE WhisperError("Failed to read audio file: ENOENT",
                                                       "FILE_READ_ERROR",
                                                       Undefined,
                                                       ErrorOf("ENOENT")))>>]
    /\ UNCHANGED <<pipelineVars, createCalls, clients, lastGet, st, wh, fd, mg>>

\* An attempt whose retry is scheduled however many attempts were made.
WhisperAttempt_AlwaysRetry(out) ==
    /\ wx.pc = "attempt"
    /\ LET attempts == Append(wx.attempts, out)
           error == AttemptError(out)
       IN IF Transcribed(out)
            THEN wx' = [wx EXCEPT !.attempts = attempts,
                                  !.pc = "done",
                                  !.settles = Append(@, Settle("resolved", out.text))]
            ELSE IF NotRetried(error)
                   THEN wx' = [wx EXCEPT !.attempts = attempts,
                                         !.pc = "done",
                                         !.settles = Append(@, Settle("rejected", error))]
                   ELSE wx' = [wx EXCEPT !.attempts = attempts, !.pc = "wait"]
    /\ UNCHANGED <<pipelineVars, createCalls, clients, lastGet, st, wh, fd, mg>>

\* One run of the function given to operation.attempt: the request, and then
\* resolve, reject or operation.retry (which schedules the next run while
\* fewer than `retries` retries were made).
WhisperAttempt(out) ==
    /\ wx.pc = "attempt"
    /\ LET attempts == Append(wx.attempts, out)
           error == AttemptError(out)
       IN IF Transcribed(out)
            THEN wx' = [wx EXCEPT !.attempts = attempts,
                                  !.pc = "done",
                                  !.settles = Append(@, Settle("resolved", out.text))]
            ELSE IF NotRetried(error)
                   THEN wx' = [wx EXCEPT !.attempts = attempts,
                                         !.pc = "done",
                                         !.settles = Append(@, Settle("rejected", error))]
                   ELSE IF Len(wx.attempts) < wx.maxRetries
                          THEN wx' = [wx EXCEPT !.attempts = attempts,
                                                !.pc = "wait"]
                          ELSE wx' = [wx EXCEPT
                                        !.attempts = attempts,
                                        !.pc = "done",
                                        !.settles =
                                           Append(@, Settle("rejected",
                                                      MaxRetriesExceeded(wx.maxRetries,
                                                                         error)))]
    /\ UNCHANGED <<pipelineVars, createCalls, clients, lastGet, st, wh, fd, mg>>

\* The timer operation.retry set fires: the next attempt starts.
WhisperRetry ==
    /\ wx.pc = "wait"
    /\ wx' = [wx EXCEPT !.pc = "attempt", !.currentAttempt = @ + 1]
    /\ UNCHANGED <<pipelineVars, createCalls, clients, lastGet, st, wh, fd, mg>>

NextWhisper ==
    \/ \E maxRetries \in 0..MaxRetries, stat \in {"ok", "tooLarge", "error"} :
          WhisperTranscribe(maxRetries, stat)
    \/ \E out \in ApiOutcomes : WhisperAttempt(out)
    \/ WhisperRetry

SpecWhisper == Init /\ [][NextWhisper]_vars

\* ------------------------------------------------------ the file downloader
\* What the fetch of downloadFile ends in: a rejection (network failure, or
\* the abort after config.timeout), or a response with its status, its
\* Content-Length header (0 when there is none, as parseInt(... ?? "0") gives)
\* and its body, which may be missing.
DownloadOutcomes ==
    {[kind |-> "throw", class |-> c] : c \in {"FetchError", "AbortError"}}
    \cup {[kind |-> "response", status |-> s, contentLength |-> n, body |-> b] :
             s \in {200, 404}, n \in 0..(MaxFileSize + 1), b \in BOOLEAN}

FileDownloaderError(message, code, cause) ==
    [isError |-> TRUE, name |-> "FileDownloaderError", message |-> message,
     code |-> code, cause |-> cause]

\* What the catch block of downloadFile throws for the error it caught.
DownloadRethrown(error) ==
    IF error.name = "FileDownloaderError"
      THEN error
      ELSE IF error.name = "AbortError"
             THEN FileDownloaderError("Download timeout exceeded",
                                      "TIMEOUT_ERROR", error)
             ELSE FileDownloaderError("Failed to download file: " \o error.message,
                                      "DOWNLOAD_FAILED", error)

\* An error reaches the catch block, which first awaits unlink(destPath).
Caught(d, error) == [d EXCEPT !.pc = "unlink", !.error = error]

\* createFileDownloader({maxFileSize: MaxFileSize}) and downloadFile(url,
\* destPath) up to its fetch, the timer that aborts the request armed; a
\* file may be at destPath already.
downloadFile(exists) ==
    /\ fd.pc = "idle"
    /\ fd' = [NoDownload EXCEPT !.pc = "fetch", !.file = exists,
                                !.timer = "armed"]
    /\ UNCHANGED <<pipelineVars, createCalls, clients, lastGet, st, wh, wx, mg>>

\* The response arrives and the stream to destPath is created whatever
\* Content-Length the response declares.
DownloadResponse_NoLengthCheck(out) ==
    /\ fd.pc = "fetch"
    /\ out = [kind |-> "throw", class |-> "AbortError"] => fd.timer = "armed"
    /\ LET d == [fd EXCEPT !.response = out, !.timer = "cleared"]
       IN IF out.kind = "throw"
            THEN fd' = Caught(d, [isError |-> TRUE, name |-> out.class,
                                  message |-> "fetch failed"])
            ELSE IF ~Ok(out)
                   THEN fd' = Caught(d, FileDownloaderError(
                                           "HTTP error " \o StatusText(out.status),
                                           "HTTP_ERROR", Undefined))
                   ELSE IF ~out.body
                          THEN fd' = Caught([d EXCEPT !.stream = "opening"],
                                            FileDownloaderError(
                                               "No response body",
                                               "EMPTY_RESPONSE", Undefined))
                          ELSE fd' = [d EXCEPT !.stream = "opening",
                                               !.pc = "streaming"]
    /\ UNCHANGED <<pipelineVars, createCalls, clients, lastGet, st, wh, wx, mg>>

\* The fetch settles and downloadFile runs on to its next await: to the catch
\* block (rejected fetch, response not ok, Content-Length over the limit,
\* no body), or to the promise that waits for the piped streams, the write
\* stream to destPath created.  The timer aborts the fetch only while it is
\* armed, and clearTimeout follows the await: a response in hand, or the
\* finally block reached, the timer is cleared.
DownloadResponse(out) ==
    /\ fd.pc = "fetch"
    /\ out = [kind |-> "throw", class |-> "AbortError"] => fd.timer = "armed"
    /\ LET d == [fd EXCEPT !.response = out, !.timer = "cleared"]
       IN IF out.kind = "throw"
            THEN fd' = Caught(d, [isError |-> TRUE, name |-> out.class,
                                  message |-> "fetch failed"])
            ELSE IF ~Ok(out)
                   THEN fd' = Caught(d, FileDownloaderError(
                                           "HTTP error " \o StatusText(out.status),
                                           "HTTP_ERROR", Undefined))
                   ELSE IF out.contentLength > MaxFileSize
                          THEN fd' = Caught(d, FileDownloaderError(
                                                  "File size exceeds maximum size",
                                                  "FILE_TOO_LARGE", Undefined))
                          ELSE IF ~out.body
                                 THEN fd' = Caught([d EXCEPT !.stream = "opening"],
                                                   FileDownloaderError(
                                                      "No response body",
                                                      "EMPTY_RESPONSE", Undefined))
                                 ELSE fd' = [d EXCEPT !.stream = "opening",
                                                      !.pc = "streaming"]
    /\ UNCHANGED <<pipelineVars, createCalls, clients, lastGet, st, wh, wx, mg>>

\* The open of the write stream completes: the file is created (or
\* truncated), also when downloadFile has gone on to its catch or finally
\* block in the meantime, since destroy() lets a pending open finish before
\* it closes the descriptor.  A failed open is the stream's 'error' event.
StreamOpen(ok) ==
    /\ fd.stream = "opening"
    /\ IF ok
         THEN fd' = [fd EXCEPT !.stream = IF fd.pc = "done" THEN "closed" ELSE "open",
                               !.file = TRUE]
         ELSE IF fd.pc \in {"streaming", "finishing"}
                THEN fd' = Caught([fd EXCEPT !.stream = "failed"],
                                  FileDownloaderError("Write stream error: EACCES",
                                                      "WRITE_ERROR",
                                                      ErrorOf("EACCES")))
                ELSE fd' = [fd EXCEPT !.stream = "failed"]
    /\ UNCHANGED <<pipelineVars, createCalls, clients, lastGet, st, wh, wx, mg>>

\* response.body 'data': a chunk of n bytes is counted; over the limit the
\* download is aborted and the promise rejected.  A response that declares
\* its length sends no more than that.
BodyData(n) ==
    /\ fd.pc = "streaming"
    /\ ~fd.stalled
    /\ fd.response.contentLength > 0 =>
          fd.downloadedSize + n <= fd.response.contentLength
    /\ LET d == [fd EXCEPT !.downloadedSize = @ + n]
       IN IF d.downloadedSize > MaxFileSize
            THEN fd' = Caught(d, FileDownloaderError(
                                    "File size exceeds maximum size",
                                    "FILE_TOO_LARGE", Undefined))
            ELSE fd' = d
    /\ UNCHANGED <<pipelineVars, createCalls, clients, lastGet, st, wh, wx, mg>>

\* response.body 'end': with no data received the promise is rejected;
\* otherwise the pipe ends the write stream.
BodyEnd ==
    /\ fd.pc = "streaming"
    /\ ~fd.stalled
    /\ IF fd.downloadedSize = 0
         THEN fd' = Caught(fd, FileDownloaderError("Empty response body",
                                                   "EMPTY_RESPONSE", Undefined))
         ELSE fd' = [fd EXCEPT !.pc = "finishing"]
    /\ UNCHANGED <<pipelineVars, createCalls, clients, lastGet, st, wh, wx, mg>>

\* response.body 'error'.
BodyError ==
    /\ fd.pc = "streaming"
    /\ ~fd.stalled
    /\ fd' = Caught(fd, FileDownloaderError("Download stream error: aborted",
                                            "STREAM_ERROR", ErrorOf("aborted")))
    /\ UNCHANGED <<pipelineVars, createCalls, clients, lastGet, st, wh, wx, mg>>

\* The server goes silent with the body unfinished: response.body emits no
\* 'data', 'end' or 'error' from here on.
BodyStall ==
    /\ fd.pc = "streaming"
    /\ ~fd.stalled
    /\ fd' = [fd EXCEPT !.stalled = TRUE]
    /\ UNCHANGED <<pipelineVars, createCalls, clients, lastGet, st, wh, wx, mg>>

\* writeStream 'error' while writing.
WriteError ==
    /\ fd.pc \in {"streaming", "finishing"}
    /\ fd.stream = "open"
    /\ fd' = Caught(fd, FileDownloaderError("Write stream error: ENOSPC",
                                            "WRITE_ERROR", ErrorOf("ENOSPC")))
    /\ UNCHANGED <<pipelineVars, createCalls, clients, lastGet, st, wh, wx, mg>>

\* writeStream 'finish': the promise resolves, and the finally block closes
\* the streams.
WriteFinish ==
    /\ fd.pc = "finishing"
    /\ fd.stream = "open"
    /\ fd' = [fd EXCEPT !.pc = "done", !.stream = "closed",
                        !.settled = <<Settle("resolved", Undefined)>>]
    /\ UNCHANGED <<pipelineVars, createCalls, clients, lastGet, st, wh, wx, mg>>

\* The catch block: unlink(destPath) settles, a failure of it is ignored, the
\* error is rethrown as a FileDownloaderError, and the finally block
\* destroys the streams.
DownloadCatch(removed) ==
    /\ fd.pc = "unlink"
    /\ fd' = [fd EXCEPT !.pc = "done",
                        !.file = IF removed THEN FALSE ELSE @,
                        !.stream = IF @ = "open" THEN "closed" ELSE @,
                        !.settled = <<Settle("rejected", DownloadRethrown(fd.error))>>]
    /\ UNCHANGED <<pipelineVars, createCalls, clients, lastGet, st, wh, wx, mg>>

NextDownloader ==
    \/ \E exists \in BOOLEAN : downloadFile(exists)
    \/ \E out \in DownloadOutcomes : DownloadResponse(out)
    \/ \E ok \in BOOLEAN : StreamOpen(ok)
    \/ \E n \in 1..(MaxFileSize + 1) : BodyData(n)
    \/ BodyEnd
    \/ BodyError
    \/ BodyStall
    \/ WriteError
    \/ WriteFinish
    \/ \E removed \in BOOLEAN : DownloadCatch(removed)

SpecDownloader == Init /\ [][NextDownloader]_vars

\* The steps the runtime and a server that keeps sending take sooner or
\* later: a pending fetch settles (by the armed timer at the latest), a
\* pending open of the write stream completes, a body that has not stalled
\* delivers its next event, an ended pipe finishes the write stream, and the
\* unlink of the catch block settles.  Nothing obliges the server not to
\* stall or the disk to fail.
FairDownloader ==
    /\ WF_vars(\E out \in DownloadOutcomes : DownloadResponse(out))
    /\ WF_vars(\E ok \in BOOLEAN : StreamOpen(ok))
    /\ WF_vars(BodyEnd \/ BodyError \/ \E n \in 1..(MaxFileSize + 1) : BodyData(n))
    /\ WF_vars(WriteFinish)
    /\ WF_vars(\E removed \in BOOLEAN : DownloadCatch(removed))

SpecDownloaderFair == SpecDownloader /\ FairDownloader

\* ------------------------------------------------------------- migrations

\* SELECT version FROM schema_migrations ORDER BY version DESC LIMIT 1, and
\* lastMigration?.version ?? 0.
CurrentVersion(versions) ==
    IF versions = <<>>
      THEN 0
      ELSE CHOOSE v \in {versions[i] : i \in DOMAIN versions} :
              \A i \in DOMAIN versions : versions[i] <= v

\* MIGRATIONS.slice(currentVersion) of a list of n entries: the entries at
\* index currentVersion and above, named by their position in the list
\* (entry 1 is "001 - Initial schema").
PendingMigrations(n, currentVersion) ==
    [i \in 1..(IF n > currentVersion THEN n - currentVersion ELSE 0) |->
        currentVersion + i]

\* The error of a statement that fails inside the transaction.
MigrationFailed == ErrorOf("Failed to initialize SQLite database: SQL error")

\* The for loop of runMigrations from its entry number `index` (counted from
\* 0) on: db.exec(migration), which throws for the entry failAt, then
\* INSERT INTO schema_migrations (version) VALUES (currentVersion + index + 1),
\* which throws when the version is there already (PRIMARY KEY).
RECURSIVE RunMigrations(_, _, _, _, _)
RunMigrations(tx, pending, index, currentVersion, failAt) ==
    IF index >= Len(pending)
      THEN [tx EXCEPT !.ok = TRUE]
      ELSE LET migration == pending[index + 1]
               version == currentVersion + index + 1
           IN IF migration = failAt
                   \/ version \in {tx.versions[i] : i \in DOMAIN tx.versions}
                THEN [tx EXCEPT !.ok = FALSE]
                ELSE RunMigrations(
                        [tx EXCEPT !.versions = Append(@, version),
                                   !.applied = Append(@, migration),
                                   !.ran = Append(@, migration)],
                        pending, index + 1, currentVersion, failAt)

\* migrate(db) without the transaction: what ran before the failing
\* statement stays.
migrate_NoTransaction(db, n, failAt) ==
    LET currentVersion == CurrentVersion(db.versions)
        tx == RunMigrations([versions |-> db.versions, applied |-> db.applied,
                             ran |-> <<>>, ok |-> TRUE],
                            PendingMigrations(n, currentVersion), 0,
                            currentVersion, failAt)
    IN [versions |-> tx.versions, applied |-> tx.applied, ran |-> tx.ran,
        out |-> IF tx.ok THEN NoThrow ELSE MigrationFailed]

\* migrate(db) of a build whose MIGRATIONS has n entries: the pending
\* migrations run in one transaction, which commits when the loop ends and
\* rolls everything back when a statement throws.
migrate(db, n, failAt) ==
    LET currentVersion == CurrentVersion(db.versions)
        tx == RunMigrations([versions |-> db.versions, applied |-> db.applied,
                             ran |-> <<>>, ok |-> TRUE],
                            PendingMigrations(n, currentVersion), 0,
                            currentVersion, failAt)
    IN IF tx.ok
         THEN [versions |-> tx.versions, applied |-> tx.applied,
               ran |-> tx.ran, out |-> NoThrow]
         ELSE [versions |-> db.versions, applied |-> db.applied,
               ran |-> <<>>, out |-> MigrationFailed]

\* createSqliteStorage({path, migrate}) of a build with n migrations: with
\* migrate not false the migrations run first and a failure rejects the
\* call; then the storage is the real one when transcription_jobs exists
\* (migration 1 has run) and the one that throws for every operation when it
\* does not.  The database is never opened by a build older than one that
\* migrated it.
createSqliteStorage(n, enabled, failAt) ==
    /\ Len(mg.opens) < MaxOpens
    /\ n >= Len(mg.versions)
    /\ ~enabled => failAt = 0
    /\ LET m == IF enabled
                  THEN migrate(mg, n, failAt)
                  ELSE [versions |-> mg.versions, applied |-> mg.applied,
                        ran |-> <<>>, out |-> NoThrow]
           hasRequiredTables == 1 \in {m.applied[i] : i \in DOMAIN m.applied}
           open == [migrate |-> enabled, entries |-> n, out |-> m.out,
                    before |-> mg.versions, ran |-> m.ran,
                    after |-> m.versions,
                    storage |-> IF m.out # NoThrow THEN "none"
                                ELSE IF hasRequiredTables THEN "ready"
                                ELSE "uninitialized"]
       IN mg' = [versions |-> m.versions,
                 applied |-> m.applied,
                 opens |-> Append(mg.opens, open)]
    /\ UNCHANGED <<pipelineVars, createCalls, clients, lastGet, st, wh, wx, fd>>

NextMigrate ==
    \E n \in 1..MaxMigrations, enabled \in BOOLEAN, failAt \in 0..MaxMigrations :
        createSqliteStorage(n, enabled, failAt)

SpecMigrate == Init /\ [][NextMigrate]_vars

\* ================================================================ claims
\* The record getJob returns for a created id.
Persisted(id) == parseJob(jobs[id])

\* Position of the first call of `op` in the pipeline's calls, 0 if none.
FirstCall(id, op) ==
    IF \E k \in 1..Len(calls[id]) : calls[id][k].op = op
      THEN CHOOSE k \in 1..Len(calls[id]) :
             /\ calls[id][k].op = op
             /\ \A m \in 1..(k - 1) : calls[id][m].op # op
      ELSE 0

\* The "completed" update of id has been persisted.
CompletedPersisted(id) ==
    \E k \in 1..Len(updates[id]) :
        updates[id][k].update.status = "completed" /\ updates[id][k].ok

\* notify was called for id and threw.
NotifyThrew(id) ==
    \E k \in 1..Len(notifyCalls[id]) : ~notifyCalls[id][k].ok

\* The failure-terminal updateJob of id was attempted and threw.
FailedUpdateThrew(id) ==
    \E k \in 1..Len(updates[id]) :
        updates[id][k].update.status = "failed" /\ ~updates[id][k].ok

Rank(status) ==
    CASE status = "pending" -> 0
      [] status = "processing" -> 1
      [] status \in Terminal -> 2

\* C1 (Failure isolation): for a job with webhookUrl whose "completed" update
\* is persisted, once notify has thrown the persisted status is still
\* "completed" and no updateJob is issued after the notify call.
C1_FailureIsolation ==
    \A id \in Created :
        (CompletedPersisted(id) /\ NotifyThrew(id)) =>
            /\ Persisted(id).status = "completed"
            /\ \A k \in (FirstCall(id, "notify") + 1)..Len(calls[id]) :
                   calls[id][k].op # "updateJob"

\* C2 (Forward-only state): once the persisted status is "completed" or
\* "failed" no update changes the record, and the status never moves
\* backwards along pending < processing < {completed, failed}.
C2_ForwardOnly ==
    [][\A id \in Created :
          /\ Persisted(id).status \in Terminal => jobs'[id] = jobs[id]
          /\ Rank(Persisted(id).status) <= Rank(parseJob(jobs'[id]).status)]_vars

\* C3 (Mutual exclusivity): a persisted job with status "completed" has no
\* error, and one with status "failed" has no result.
C3_MutualExclusivity ==
    \A id \in Created :
        /\ Persisted(id).status = "completed" => Persisted(id).error = Undefined
        /\ Persisted(id).status = "failed" => Persisted(id).result = Undefined

\* A caller that called waitForJob(id) for a created job and then
\* getTranscriptionJob(id).
WaitedThenGot(c) == clients[c].pc = "got" /\ clients[c].id \in Created

ReturnedFromInFlight(c) ==
    /\ clients[c].pc \in {"returned", "got"}
    /\ clients[c].inFlight

\* C5: a waitForJob(id) called while the pipeline of id is in flight returns
\* only after the pipeline has finished, and after it has returned the
\* pipeline makes no storage update, download, transcribe, notify or
\* temp-directory call for id.
C5_WaitReturnsAfterPipeline ==
    [][\A c \in ClientIds :
          ReturnedFromInFlight(c)' =>
              LET id == clients'[c].id
              IN /\ pc'[id] = "done"
                 /\ ReturnedFromInFlight(c) =>
                       /\ jobs'[id] = jobs[id]
                       /\ calls'[id] = calls[id]
                       /\ updates'[id] = updates[id]
                       /\ notifyCalls'[id] = notifyCalls[id]
                       /\ tempDir'[id] = tempDir[id]]_vars

\* C5 witness: a waitForJob called while the pipeline was in flight has
\* returned.
C5_Witness ==
    \E c \in ClientIds : ReturnedFromInFlight(c) /\ clients[c].tracked

\* C6: waitForJob(id) returns at once and without error when no pipeline is
\* tracked for id, that is when id was never created or its pipeline has
\* finished; the call changes nothing else.
C6_WaitUntrackedReturnsAtOnce ==
    [][\A c \in ClientIds :
          (clients[c].pc = "idle" /\ clients'[c].pc # "idle") =>
              LET id == clients'[c].id
              IN (id \notin pendingJobs \/ ~InFlight(id)) =>
                    /\ clients'[c].pc = "returned"
                    /\ clients'[c].outcome = "ok"
                    /\ UNCHANGED pipelineVars]_vars

\* C6 witness: waitForJob was called for a job whose pipeline had finished and
\* has returned without suspending.
C6_Witness ==
    \E c \in ClientIds :
        /\ clients[c].pc = "returned"
        /\ clients[c].id \in Created
        /\ ~clients[c].inFlight
        /\ ~clients[c].tracked
        /\ clients[c].outcome = "ok"

\* C7: waitForJob never raises, whether the job ended "failed" or the
\* failure-terminal updateJob threw.
C7_WaitNeverRaises ==
    \A c \in ClientIds : clients[c].outcome # "threw"

\* C7 witness: a waitForJob that suspended on a pipeline whose
\* failure-terminal updateJob threw has returned normally.
C7_Witness ==
    \E c \in ClientIds :
        /\ clients[c].pc \in {"returned", "got"}
        /\ clients[c].tracked
        /\ clients[c].outcome = "ok"
        /\ FailedUpdateThrew(clients[c].id)
        /\ promise[clients[c].id] = "rejected"

\* C8 (Notification gating): for a job created without webhookUrl, notify is
\* never called.
C8_NotificationGating ==
    \A id \in Created :
        job[id].webhookUrl = Undefined =>
            /\ notifyCalls[id] = <<>>
            /\ FirstCall(id, "notify") = 0

\* C8 witness: a job created without webhookUrl has completed and its
\* pipeline has finished.
C8_Witness ==
    \E id \in Created :
        /\ job[id].webhookUrl = Undefined
        /\ pc[id] = "done"
        /\ Persisted(id).status = "completed"

C10_NoNotifyOnFailure ==
    \A id \in Created :
        Persisted(id).status = "failed" => notifyCalls[id] = <<>>

\* The pipeline of id has finished and every call it awaited resolved.
HappyPath(id) ==
    /\ pc[id] = "done"
    /\ \A k \in 1..Len(calls[id]) : calls[id][k].out = NoThrow

FetchOrTranscribeFault(id) ==
    \E k \in 1..Len(calls[id]) :
        /\ calls[id][k].op \in {"downloadFile", "transcribe"}
        /\ calls[id][k].out.isError

\* Position of that call among the pipeline's calls.
FaultPos(id) ==
    CHOOSE k \in 1..Len(calls[id]) :
        /\ calls[id][k].op \in {"downloadFile", "transcribe"}
        /\ calls[id][k].out.isError

\* No "completed" update was issued, and transcribe was not called after a
\* failed download.
LaterStepsSkipped(id) ==
    /\ \A k \in 1..Len(updates[id]) : updates[id][k].update.status # "completed"
    /\ calls[id][FaultPos(id)].op = "downloadFile" => FirstCall(id, "transcribe") = 0
    /\ notifyCalls[id] = <<>>

\* C12 as stated (Fetch/transcription fault): if downloadFile or transcribe
\* throws an Error e, no "completed" update is issued, the later steps are
\* skipped, and the final record is "failed" with error = e.message and no
\* result.
C12_FetchTranscribeFault ==
    \A id \in Created :
        (pc[id] = "done" /\ FetchOrTranscribeFault(id)) =>
            /\ LaterStepsSkipped(id)
            /\ Persisted(id).status = "failed"
            /\ Persisted(id).error = calls[id][FaultPos(id)].out.message
            /\ Persisted(id).result = Undefined

\* C12 amended: after the fault the pipeline calls exactly cleanupTempDir and
\* then updateJob({status: "failed", error}), where error is e.message if the
\* cleanup resolved and the cleanup's own message if it rejected; the record
\* ends "failed" with that error and no result if this update resolved, and
\* stays "processing" without error if it rejected.
C12_FetchTranscribeFaultAmended ==
    \A id \in Created :
        (pc[id] = "done" /\ FetchOrTranscribeFault(id)) =>
            LET k == FaultPos(id)
                e == calls[id][k].out
            IN /\ LaterStepsSkipped(id)
               /\ Len(calls[id]) = k + 2
               /\ calls[id][k + 1].op = "cleanupTempDir"
               /\ calls[id][k + 2].op = "updateJob"
               /\ LET cleanup == calls[id][k + 1].out
                      msg == IF cleanup = NoThrow THEN e.message
                                                 ELSE ErrorMessage(cleanup)
                      ok == calls[id][k + 2].out = NoThrow
                  IN /\ updates[id][Len(updates[id])] =
                          [update |-> Partial("failed", Undefined, msg), ok |-> ok]
                     /\ Persisted(id).result = Undefined
                     /\ IF ok
                          THEN /\ Persisted(id).status = "failed"
                               /\ Persisted(id).error = msg
                          ELSE /\ Persisted(id).status = "processing"
                               /\ Persisted(id).error = Undefined

\* C12 witness: a download threw an Error and the record ended "failed" with
\* its message.
C12_Witness ==
    \E id \in Created :
        /\ pc[id] = "done"
        /\ FetchOrTranscribeFault(id)
        /\ calls[id][FaultPos(id)] = Call("downloadFile", ErrorOf("HTTP 404"))
        /\ Persisted(id).status = "failed"
        /\ Persisted(id).error = "HTTP 404"

\* The createTranscriptionJob call that a step begins, if it begins one.
NewCreateCall == createCalls'[Len(createCalls')]

GetResolved(id) ==
    /\ lastGet' # lastGet
    /\ lastGet'.id = id
    /\ lastGet'.rejection = NoThrow

\* What createTranscriptionJob returned for id (NoJob before it returns).
ReturnedJob(id) ==
    IF \E k \in DOMAIN createCalls : createCalls[k].id = id
      THEN createCalls[CHOOSE k \in DOMAIN createCalls : createCalls[k].id = id].returned
      ELSE NoJob

\* C14 (Happy-path idempotent read): a getTranscriptionJob(job.id) made after
\* createTranscriptionJob returned job and before the pipeline's first await
\* has settled yields a record with job's id, audioFileUrl and webhookUrl and
\* status "pending"; and a record is "pending" until createTranscriptionJob
\* has returned it, so no caller sees "processing" before that.
C14_ReadAfterCreate ==
    [][/\ \A id \in Created :
             (GetResolved(id) /\ pc[id] = "createTempDir") =>
                 (/\ Len(lastGet'.observed) = 1
                  /\ ReturnedJob(id) # NoJob
                  /\ ReturnedJob(id).status = "pending"
                  /\ lastGet'.observed[1].id = ReturnedJob(id).id
                  /\ lastGet'.observed[1].audioFileUrl = ReturnedJob(id).audioFileUrl
                  /\ lastGet'.observed[1].webhookUrl = ReturnedJob(id).webhookUrl
                  /\ lastGet'.observed[1].status = "pending")
       /\ \A id \in Created :
             (ReturnedJob(id) = NoJob) =>
                 (Persisted(id).status = "pending" /\ ~GetResolved(id))
    ]_vars

\* C14 witness: a job was read right after its creation returned and the
\* read gave the pending record.
C14_Witness ==
    \E id \in Created :
        /\ pc[id] = "createTempDir"
        /\ lastGet.called /\ lastGet.id = id
        /\ lastGet.observed = <<ReturnedJob(id)>>
        /\ ReturnedJob(id).webhookUrl = "https://example.com/webhook"

\* C15 (Validation fault): a createTranscriptionJob call with an empty
\* audioFileUrl is rejected, does not reach storage.createJob, creates no
\* record and starts no pipeline.
C15_ValidationFault ==
    /\ \A k \in DOMAIN createCalls :
          createCalls[k].audioFileUrl = "" =>
              (createCalls[k].rejection # NoThrow /\ createCalls[k].id = UnknownId)
    /\ \A id \in Created : Persisted(id).audioFileUrl # ""
    /\ \A id \in JobIds : job[id].audioFileUrl = "" => pc[id] = "none"

\* C16 (getTranscriptionJob): the call resolves with the current persisted
\* record of the id, or with null (no record) and no exception when the id
\* was never created; it rejects with exactly what storage.getJob rejected
\* with; in either case the store, the in-flight map and every pipeline are
\* left as they were.
C16_GetJob ==
    [][(lastGet' # lastGet) =>
          (/\ UNCHANGED <<pipelineVars, createCalls, clients>>
           /\ lastGet'.rejection = lastGet'.out
           /\ IF lastGet'.out = NoThrow
                 THEN lastGet'.observed =
                        IF lastGet'.id \in Created
                          THEN <<Persisted(lastGet'.id)>>
                          ELSE <<>>
                 ELSE /\ lastGet'.rejection \in Faults("getJob")
                      /\ lastGet'.observed = <<>>)
    ]_vars

\* C16 witness: a get of an id that was never created returned null without
\* throwing, after a job had been created.
C16_Witness ==
    /\ Created # {}
    /\ lastGet.called
    /\ lastGet.id = UnknownId
    /\ lastGet.rejection = NoThrow
    /\ lastGet.observed = <<>>

\* Number of calls of `op` the pipeline of id has made.
CountCalls(id, op) ==
    Cardinality({k \in 1..Len(calls[id]) : calls[id][k].op = op})

\* The pipeline of id made a call of `op` that resolved.
Resolved(id, op) ==
    \E k \in 1..Len(calls[id]) : calls[id][k] = Call(op, NoThrow)

UpdateSteps == {"updateProcessing", "updateCompleted", "updateFailed"}

\* The step is a step of the pipeline run of id.
StepOf(id) == pc'[id] # pc[id] \/ calls'[id] # calls[id]

\* C18 (Exactly-once pipeline and single writer): a run is started for an id
\* once, by the createTranscriptionJob call that created it, and never
\* restarted; a record changes only in an updateJob step of the run of its
\* own id; a step of one run, whatever its collaborator answered, leaves the
\* records, the updates and the run of every other id as they were.
C18_SingleWriter ==
    [][/\ \A i \in JobIds :
             /\ (pc'[i] = "createTempDir" /\ pc[i] # "createTempDir") =>
                   (/\ pc[i] = "created"
                    /\ calls[i] = <<>>
                    /\ ReturnedJob(i)' = job[i])
             /\ pc[i] = "done" => (pc'[i] = "done" /\ calls'[i] = calls[i])
             /\ CountCalls(i, "createTempDir")' <= 1
             /\ (updates'[i] # updates[i]) =>
                   (/\ pc[i] \in UpdateSteps
                    /\ Len(calls'[i]) = Len(calls[i]) + 1
                    /\ calls'[i][Len(calls'[i])].op = "updateJob")
             /\ StepOf(i) =>
                   \A j \in JobIds \ {i} :
                       /\ ~StepOf(j)
                       /\ updates'[j] = updates[j]
                       /\ j \in Created => jobs'[j] = jobs[j]
       /\ \A i \in Created :
             (jobs'[i] # jobs[i]) =>
                 (/\ StepOf(i)
                  /\ updates'[i] # updates[i]
                  /\ jobs'[i].id = jobs[i].id)
    ]_vars

\* C18 witness: two runs are in flight at once, one with its record
\* completed, the other about to record a failure.
C18_Witness ==
    \E i, j \in Created :
        /\ i # j
        /\ pc[i] = "cleanupTempDir" /\ Persisted(i).status = "completed"
        /\ pc[j] = "updateFailed" /\ Persisted(j).status = "processing"

\* A field of an update is provided: neither undefined nor null.
Provided(v) == v # Undefined /\ v # Null

\* The value of a field after an update that gives it v.
SparseField(v, previous) == IF Provided(v) THEN v ELSE previous

\* C20 (Storage sparse update): an updateJob(id, update) that resolves on an
\* existing row sets each of status, result, error and webhookUrl to the
\* value update provides for it and leaves it as it was when update gives
\* undefined or null for it; id, audioFileUrl and createdAt stay as they
\* were, and so does every other row.
C20_SparseUpdate ==
    [][(st'.last.op = "updateJob" /\ st'.last.out = NoThrow
                                   /\ st'.rows # st.rows) =>
          \A u \in StorageUpdates :
             (/\ st'.last.id \in DOMAIN st.rows
              /\ st'.rows[st'.last.id] =
                    SqliteUpdateRow(st.rows[st'.last.id], u, st.now)) =>
                (/\ DOMAIN st'.rows = DOMAIN st.rows
                 /\ \A i \in DOMAIN st.rows \ {st'.last.id} :
                       st'.rows[i] = st.rows[i]
                 /\ LET before == st.rows[st'.last.id]
                        after == st'.rows[st'.last.id]
                    IN /\ parseJob(after).status =
                            SparseField(u.status, parseJob(before).status)
                       /\ parseJob(after).result =
                            SparseField(u.result, parseJob(before).result)
                       /\ parseJob(after).error =
                            SparseField(u.error, parseJob(before).error)
                       /\ parseJob(after).webhookUrl =
                            SparseField(u.webhookUrl, parseJob(before).webhookUrl)
                       /\ parseJob(after).id = parseJob(before).id
                       /\ parseJob(after).audioFileUrl =
                            parseJob(before).audioFileUrl
                       /\ after.created_at = before.created_at)
    ]_vars

\* C20 witness: updates that gave a result and an error but no status and no
\* webhook URL have left the status and the URL of the created row in place,
\* on a row created before the clock advanced.
C20_Witness ==
    /\ st.last.op = "updateJob"
    /\ st.last.out = NoThrow
    /\ st.last.id \in DOMAIN st.rows
    /\ parseJob(st.rows[st.last.id]).result = "hello"
    /\ parseJob(st.rows[st.last.id]).error = "boom"
    /\ parseJob(st.rows[st.last.id]).status = "pending"
    /\ parseJob(st.rows[st.last.id]).webhookUrl = "https://example.com/webhook"
    /\ st.rows[st.last.id].created_at < st.rows[st.last.id].updated_at

\* The pipeline of id made, after its k-th updateJob call, a notify call that
\* carried `status` (and an error if the status is "failed").
NotifiedAfter(id, k, status) ==
    \E n \in 1..Len(notifyCalls[id]) :
        /\ notifyCalls[id][n].job.status = status
        /\ status = "failed" => notifyCalls[id][n].job.error # Undefined
        /\ Cardinality({c \in 1..Len(calls[id]) :
                           calls[id][c].op = "updateJob"
                           /\ c < FirstCall(id, "notify")}) >= k

\* C19 (documented webhook notifications): for a job created with a
\* webhookUrl, every persisted status change, to processing, to completed or
\* to failed, is followed by a notify call carrying the new status, with
\* error set when the status is failed.
C19_NotifyOnStatusChange ==
    \A id \in Created :
        (pc[id] = "done" /\ Truthy(job[id].webhookUrl)) =>
            \A k \in 1..Len(updates[id]) :
                updates[id][k].ok =>
                    NotifiedAfter(id, k, updates[id][k].update.status)

C23_WebhookRetryBound ==
    /\ Len(wh.requests) <= wh.maxRetries
    /\ \A k \in 1..Len(wh.requests) : wh.requests[k].attempt = k
    /\ wh.notify.state = "resolved" =>
          (/\ wh.notify.after = Len(wh.requests)
           /\ wh.notify.after >= 1
           /\ Ok(wh.requests[wh.notify.after].out))
    /\ (/\ wh.pc = "done"
        /\ Len(wh.requests) = wh.maxRetries
        /\ \A k \in 1..Len(wh.requests) : ~Ok(wh.requests[k].out)) =>
          (/\ wh.notify.state = "rejected"
           /\ wh.notify.error.name = "WebhookDeliveryError"
           /\ wh.notify.error.attempt = wh.maxRetries)

\* The attempts of the transcribe call that failed.
FailedAttempts == {k \in 1..Len(wx.attempts) : ~Transcribed(wx.attempts[k])}

\* The transcribe call made at most maxRetries + 1 attempts, its promise was
\* settled at most once (once when the call is over), and when it resolved
\* it did so with the text of the last attempt, the only successful one.
WhisperBound ==
    /\ Len(wx.attempts) <= wx.maxRetries + 1
    /\ Len(wx.settles) <= 1
    /\ wx.pc = "done" <=> Len(wx.settles) = 1
    /\ \A k \in 1..Len(wx.attempts) :
          Transcribed(wx.attempts[k]) =>
             (/\ k = Len(wx.attempts)
              /\ wx.settles = <<Settle("resolved", wx.attempts[k].text)>>)
    /\ (wx.settles # <<>> /\ wx.settles[1].state = "resolved") =>
          (Len(wx.attempts) >= 1 /\ Transcribed(wx.attempts[Len(wx.attempts)]))

\* C24 (whisper retry bound): transcribe makes at most maxRetries + 1
\* attempts, resolves with the text of the first successful response and
\* stops there, and settles its promise exactly once; when every attempt
\* made has failed, whatever the failure, the rejection is a WhisperError
\* with code MAX_RETRIES_EXCEEDED, status 400 and the last attempt's error as
\* cause.
C24_WhisperRetryBound ==
    /\ WhisperBound
    /\ (/\ wx.pc = "done"
        /\ Len(wx.attempts) >= 1
        /\ FailedAttempts = 1..Len(wx.attempts)) =>
          wx.settles =
             <<Settle("rejected",
                      MaxRetriesExceeded(wx.maxRetries,
                                         AttemptError(wx.attempts[Len(wx.attempts)])))>>

\* C24 amended: as above, but an attempt that fails with an error whose code
\* is ENOENT or EACCES is not retried and transcribe rejects with that very
\* error; MAX_RETRIES_EXCEEDED is the rejection when maxRetries + 1 attempts
\* were made and all failed with other errors.
C24_WhisperRetryBoundAmended ==
    /\ WhisperBound
    /\ (/\ wx.pc = "done"
        /\ Len(wx.attempts) >= 1
        /\ FailedAttempts = 1..Len(wx.attempts)) =>
          LET last == AttemptError(wx.attempts[Len(wx.attempts)])
          IN IF NotRetried(last)
               THEN wx.settles = <<Settle("rejected", last)>>
               ELSE /\ Len(wx.attempts) = wx.maxRetries + 1
                    /\ wx.settles =
                          <<Settle("rejected",
                                   MaxRetriesExceeded(wx.maxRetries, last))>>
    /\ \A k \in 1..Len(wx.attempts) :
          NotRetried(AttemptError(wx.attempts[k])) /\ ~Transcribed(wx.attempts[k])
             => k = Len(wx.attempts)

\* Two retries were made, a 4xx response among the failures, and transcribe
\* rejected with MAX_RETRIES_EXCEEDED.
C24_Witness ==
    /\ wx.pc = "done"
    /\ wx.maxRetries = 2
    /\ Len(wx.attempts) = 3
    /\ wx.attempts[1].kind = "response" /\ wx.attempts[1].status = 400
    /\ wx.settles # <<>>
    /\ wx.settles[1].state = "rejected"
    /\ wx.settles[1].value.code = "MAX_RETRIES_EXCEEDED"
    /\ wx.settles[1].value.status = 400

\* downloadFile has returned and no open of its write stream is pending.
DownloadOver == fd.pc = "done" /\ fd.stream # "opening"

DownloadRejected ==
    fd.settled # <<>> /\ fd.settled[1].state = "rejected"

\* C25 (file downloader cleanup): whenever downloadFile rejects, the
\* rejection is a FileDownloaderError and no file is at destPath afterwards;
\* a file is at destPath after the call only if downloadFile resolved.
C25_DownloaderCleanup ==
    /\ DownloadRejected => fd.settled[1].value.name = "FileDownloaderError"
    /\ (DownloadOver /\ DownloadRejected) => ~fd.file
    /\ (DownloadOver /\ fd.file) => fd.settled[1].state = "resolved"

\* The response declared a Content-Length over the limit, or more bytes than
\* the limit were received from it.
OverLimit ==
    /\ fd.response.kind = "response"
    /\ \/ fd.response.contentLength > MaxFileSize
       \/ fd.downloadedSize > MaxFileSize

\* C26 (file downloader size limit): downloadFile never resolves for a
\* response whose declared Content-Length or whose received byte count is
\* over maxFileSize; it rejects with code FILE_TOO_LARGE, and with a declared
\* Content-Length over the limit no write stream is opened at destPath.
C26_SizeLimit ==
    OverLimit =>
       (/\ fd.settled # <<>> => (/\ fd.settled[1].state = "rejected"
                                 /\ fd.settled[1].value.code = "FILE_TOO_LARGE")
        /\ fd.pc \in {"unlink", "done"}
        /\ fd.pc = "unlink" => fd.error.code = "FILE_TOO_LARGE"
        /\ fd.response.contentLength > MaxFileSize => fd.stream = "none")

\* C26 amended: the same for a response that is ok; a response that is not
\* ok is rejected with HTTP_ERROR whatever length it declares, and no write
\* stream is opened for it either.
C26_SizeLimitAmended ==
    OverLimit =>
       (/\ fd.settled # <<>> =>
              (/\ fd.settled[1].state = "rejected"
               /\ fd.settled[1].value.code =
                     IF Ok(fd.response) THEN "FILE_TOO_LARGE" ELSE "HTTP_ERROR")
        /\ fd.pc \in {"unlink", "done"}
        /\ fd.pc = "unlink" =>
              fd.error.code = IF Ok(fd.response) THEN "FILE_TOO_LARGE"
                                                 ELSE "HTTP_ERROR"
        /\ fd.response.contentLength > MaxFileSize => fd.stream = "none"
        /\ ~Ok(fd.response) => fd.stream = "none")

\* A response without a declared length sent more than the limit: the
\* download was rejected with FILE_TOO_LARGE after the stream was opened.
C26_Witness ==
    /\ fd.pc = "done"
    /\ Ok(fd.response)
    /\ fd.response.contentLength = 0
    /\ fd.downloadedSize > MaxFileSize
    /\ fd.stream = "closed"
    /\ DownloadRejected
    /\ fd.settled[1].value.code = "FILE_TOO_LARGE"

\* The run of id issued an updateJob with this status.
Issued(id, status) ==
    \E k \in 1..Len(updates[id]) : updates[id][k].update.status = status

\* The position among the calls of id of its n-th updateJob call.
UpdateCall(id, n) ==
    CHOOSE k \in 1..Len(calls[id]) :
        /\ calls[id][k].op = "updateJob"
        /\ Cardinality({m \in 1..k : calls[id][m].op = "updateJob"}) = n

LastCall(id) == calls[id][Len(calls[id])]
LastUpdate(id) == updates[id][Len(updates[id])].update

C29_InFlightMap ==
    [][/\ \A id \in JobIds :
             /\ id \in pendingJobs' <=> InFlight(id)'
             /\ (~InFlight(id) /\ InFlight(id)') =>
                   (PcOf(id) = "created" /\ calls'[id] = <<>>)
             /\ (InFlight(id) /\ ~InFlight(id)') =>
                   (/\ PcOf(id)' = "done"
                    /\ id \notin pendingJobs'
                    /\ LastCall(id)'.op \in {"updateJob", "cleanupTempDir"})
             /\ PcOf(id) = "done" => (PcOf(id)' = "done" /\ id \notin pendingJobs')
       /\ (\A id \in JobIds : ~InFlight(id)') => pendingJobs' = {}]_vars

\* One run has finished with its failure-terminal update thrown and its entry
\* is gone, while the run of another id is in the map.
C29_Witness ==
    \E id \in Created : \E other \in Created \ {id} :
        /\ pc[id] = "done"
        /\ FailedUpdateThrew(id)
        /\ InFlight(other)
        /\ pendingJobs = {other}

\* A call of the run of id other than its failure-terminal update threw.
StepThrew(id) ==
    \E k \in 1..Len(calls[id]) :
        /\ calls[id][k].out # NoThrow
        /\ calls[id][k].op = "updateJob" =>
              updates[id][Cardinality({m \in 1..k : calls[id][m].op = "updateJob"})]
                 .update.status # "failed"

FailedUpdates(id) ==
    {k \in 1..Len(updates[id]) : updates[id][k].update.status = "failed"}

\* C30 (double failure): a run in which a step threw makes exactly one
\* updateJob attempt with status "failed", as its last call; if that attempt
\* throws too, the record keeps its last persisted status, which is
\* "pending" or "processing", the error is logged with console.error, and
\* the entry of the id is removed from the in-flight map.
C30_DoubleFailure ==
    \A id \in Created :
        /\ (pc[id] = "done" /\ StepThrew(id)) =>
              (/\ FailedUpdates(id) = {Len(updates[id])}
               /\ LastCall(id).op = "updateJob")
        /\ (pc[id] = "done" /\ FailedUpdateThrew(id)) =>
              (/\ FailedUpdates(id) = {Len(updates[id])}
               /\ LastCall(id).op = "updateJob"
               /\ Persisted(id).status \in {"pending", "processing"}
               /\ Persisted(id).error = Undefined
               /\ \E n \in 1..Len(console) : console[n] = LastCall(id).out
               /\ id \notin pendingJobs)

\* The value the catch block of the run of id received before it issued the
\* call at position k: what the last throwing call before k threw.
CaughtBefore(id, k) ==
    LET m == CHOOSE m \in 1..(k - 1) :
                /\ calls[id][m].out # NoThrow
                /\ \A n \in (m + 1)..(k - 1) : calls[id][n].out = NoThrow
    IN calls[id][m].out

\* C31 (error stringification): the error of every failure-terminal update
\* is the message of the thrown value when that value is an Error and
\* "Unknown error occurred" when it is not; a record persisted as "failed"
\* has a string as its error.
C31_ErrorStringification ==
    \A id \in Created :
        /\ \A n \in FailedUpdates(id) :
              LET caught == CaughtBefore(id, UpdateCall(id, n))
              IN updates[id][n].update.error =
                    IF caught.isError THEN caught.message
                                      ELSE "Unknown error occurred"
        /\ Persisted(id).status = "failed" =>
              (/\ Persisted(id).error \notin {Undefined, Null}
               /\ \E n \in FailedUpdates(id) :
                     updates[id][n].ok
                     /\ Persisted(id).error = updates[id][n].update.error)

\* transcribe threw a value that is not an Error and the record was persisted
\* as "failed" with the fixed message.
C31_Witness ==
    \E id \in Created :
        /\ pc[id] = "done"
        /\ \E k \in 1..Len(calls[id]) : calls[id][k] = Call("transcribe", NonError)
        /\ Persisted(id).status = "failed"
        /\ Persisted(id).error = "Unknown error occurred"

\* C33 (no outcome before a terminal status): a record whose persisted status
\* is "pending" or "processing" has neither a result nor an error, whatever
\* the collaborators did.
C33_NoOutcomeBeforeTerminal ==
    \A id \in Created :
        Persisted(id).status \in {"pending", "processing"} =>
            /\ Persisted(id).result = Undefined
            /\ Persisted(id).error = Undefined

\* A run that ended with the record still "processing": a step threw and the
\* failure update threw as well.
C33_Witness ==
    \E id \in Created :
        /\ pc[id] = "done"
        /\ Persisted(id).status = "processing"
        /\ FailedUpdates(id) # {}
        /\ Persisted(id).result = Undefined
        /\ Persisted(id).error = Undefined

\* The fields of a record that are fixed when the job is created.
CreationFields(record) ==
    [id |-> record.id,
     audioFileUrl |-> record.audioFileUrl,
     webhookUrl |-> record.webhookUrl]

\* C34 (immutable fields): every update the pipeline issues carries status,
\* result and error only; the record createTranscriptionJob returns has the
\* id, audioFileUrl and webhookUrl of the stored row, and no later step
\* changes the row's id, audioFileUrl, webhookUrl or createdAt.
C34_ImmutableFields ==
    [][/\ updates' # updates =>
             \A id \in DOMAIN jobs' :
                \A n \in 1..Len(updates'[id]) :
                   updates'[id][n].update.webhookUrl = Undefined
       /\ (jobs' # jobs \/ job' # job) =>
             \A id \in DOMAIN jobs' :
                LET after == parseRow(jobs'[id])
                IN /\ CreationFields(job'[id]) = CreationFields(after)
                   /\ id \in Created =>
                         LET before == parseRow(jobs[id])
                         IN /\ CreationFields(after) = CreationFields(before)
                            /\ after.createdAt = before.createdAt]_vars

\* A job created with a webhook URL went through the processing, completed and
\* failed updates and still has the webhook URL it was created with.
C34_Witness ==
    \E id \in Created :
        /\ pc[id] = "done"
        /\ Cardinality({n \in 1..Len(updates[id]) : updates[id][n].ok}) = 3
        /\ job[id].webhookUrl # Undefined
        /\ CreationFields(Persisted(id)) = CreationFields(job[id])

\* C36 (storage timestamps): a created row has createdAt equal to updatedAt;
\* no step changes the createdAt of a row or moves its updatedAt back, and a
\* resolved updateJob leaves updatedAt at least as late as it was; so in every
\* row updatedAt is at or after createdAt.
C36_StorageTimestamps ==
    [][st'.rows # st.rows =>
         \A id \in DOMAIN st'.rows :
            LET after == parseRow(st'.rows[id])
            IN /\ after.updatedAt.time >= after.createdAt.time
               /\ id \notin DOMAIN st.rows =>
                     /\ after.createdAt = after.updatedAt
                     /\ st'.last.ret = <<after>>
               /\ id \in DOMAIN st.rows =>
                     LET before == parseRow(st.rows[id])
                     IN /\ after.createdAt = before.createdAt
                        /\ after.updatedAt.time >= before.updatedAt.time
                        /\ (after # before) =>
                              /\ st'.last.op = "updateJob"
                              /\ st'.last.ret = <<after>>]_vars

\* An updateJob resolved after the clock advanced: the row's updatedAt is
\* later than its createdAt.
C36_Witness ==
    /\ st.last.op = "updateJob"
    /\ st.last.out = NoThrow
    /\ st.last.id \in DOMAIN st.rows
    /\ LET record == parseRow(st.rows[st.last.id])
       IN /\ record.updatedAt.time > record.createdAt.time
          /\ st.last.ret = <<record>>

\* Every request of the delivery got no response: fetch threw a network
\* error (TypeError) or was aborted by the timeout (DOMException).
EveryRequestThrew ==
    /\ wh.requests # <<>>
    /\ \A k \in 1..Len(wh.requests) : wh.requests[k].out.kind = "throw"

\* C38 (two attempts with maxRetries = 1): when a delivery with maxRetries = 1
\* is over and every request failed with a network error or a timeout, two
\* requests were made and notify rejected with a WebhookDeliveryError whose
\* code is DELIVERY_FAILED and whose attempt is 2.
C38_AttemptedTwice ==
    (wh.maxRetries = 1 /\ wh.pc = "done" /\ EveryRequestThrew) =>
        /\ Len(wh.requests) = 2
        /\ wh.notify.state = "rejected"
        /\ wh.notify.error.name = "WebhookDeliveryError"
        /\ wh.notify.error.code = "DELIVERY_FAILED"
        /\ wh.notify.error.attempt = 2

\* downloadFile has settled; if the body stalled, it rejected, with
\* TIMEOUT_ERROR unless the write stream failed first.
DownloadBounded ==
    /\ fd.settled # <<>>
    /\ fd.stalled =>
          /\ fd.settled[1].state = "rejected"
          /\ fd.settled[1].value.code \in {"TIMEOUT_ERROR", "WRITE_ERROR"}

\* C39 (download time limit): every downloadFile call settles, and a call
\* whose response body stalls after the headers rejects with TIMEOUT_ERROR.
C39_DownloadTimeLimit == (fd.pc # "idle") ~> DownloadBounded

\* No run of processTranscription is in flight, and every caller that
\* awaited one has returned normally.
Quiet ==
    /\ \A id \in JobIds : ~InFlight(id)
    /\ \A c \in ClientIds :
          clients[c].tracked =>
              (clients[c].pc # "awaiting" /\ clients[c].outcome = "ok")

\* C32 (pipeline termination): with every collaborator call settling, every
\* run of processTranscription that has started reaches its end and every
\* waitForJob that awaits a run returns normally: from any state with a run
\* in flight or a caller waiting, a state with neither is reached.  A run in
\* flight leaves that state only by reaching its end, from its cleanup or
\* from its failure update: nothing cancels it or starts it again.
C32_PipelineTermination ==
    /\ ~Quiet ~> Quiet
    /\ [][\A id \in JobIds :
            InFlight(id) =>
                \/ PcOf(id)' \notin {"none", "created", "done"}
                \/ /\ pc'[id] = "done"
                   /\ pc[id] \in {"cleanupTempDir", "updateFailed"}]_vars

\* A caller awaited a run in flight and returned after the run had ended
\* with both a step and the failure update throwing.
C32_Witness ==
    \E c \in ClientIds :
        /\ clients[c].tracked
        /\ clients[c].inFlight
        /\ clients[c].pc # "awaiting"
        /\ clients[c].outcome = "ok"
        /\ pc[clients[c].id] = "done"
        /\ promise[clients[c].id] = "rejected"

\* The versions 1..n in order.
UpTo(n) == [i \in 1..n |-> i]

\* C37 (migration idempotence): schema_migrations holds one row per migration
\* run, versions 1..k, and migration i was run once, for version i; every
\* createSqliteStorage call with migrations enabled that resolved left the
\* versions 1..N of its N migrations, having run exactly the migrations
\* above the highest version recorded before it; every call that failed left
\* the recorded versions as they were.
C37_MigrationIdempotence ==
    /\ mg.versions = UpTo(Len(mg.versions))
    /\ mg.applied = mg.versions
    /\ \A k \in 1..Len(mg.opens) :
          LET open == mg.opens[k]
          IN /\ (open.migrate /\ open.out = NoThrow) =>
                   /\ open.after = UpTo(open.entries)
                   /\ open.before \o open.ran = open.after
             /\ open.out # NoThrow =>
                   /\ open.after = open.before
                   /\ open.ran = <<>>
             /\ open.after = IF k < Len(mg.opens) THEN mg.opens[k + 1].before
                                                  ELSE mg.versions

\* A database migrated by a build with one migration was opened by a build
\* with two, first with migration 2 failing, then with success: only
\* migration 2 ran.
C37_Witness ==
    \E k \in 2..Len(mg.opens) :
        /\ mg.opens[k - 1].migrate
        /\ mg.opens[k - 1].out # NoThrow
        /\ mg.opens[k].migrate
        /\ mg.opens[k].out = NoThrow
        /\ mg.opens[k].before = <<1>>
        /\ mg.opens[k].ran = <<2>>
        /\ mg.versions = <<1, 2>>

\* C35 (instance isolation): each instance's Map holds ids of jobs created
\* through it only; a waitForJob on the second instance for a job of the
\* first finds nothing and returns at once, whether or not the run is in
\* flight; and a step that changes the second instance's state leaves the
\* first instance's Map as it was.
C35_InstanceIsolation ==
    [][/\ pendingJobs' \cap peer'.jobs = {}
       /\ peer'.pendingJobs \subseteq peer'.jobs
       /\ \A k \in DOMAIN peer'.waits :
             peer'.waits[k].id \notin peer'.jobs =>
                 /\ ~peer'.waits[k].tracked
                 /\ peer'.waits[k].pc = "returned"
       /\ peer' # peer => pendingJobs' = pendingJobs]_vars

\* waitForJob on the second instance returned at once for a job whose run
\* was in flight in the first instance, and that run is still in flight.
C35_Witness ==
    \E k \in DOMAIN peer.waits :
        /\ peer.waits[k].inFlight
        /\ peer.waits[k].first
        /\ ~peer.waits[k].tracked
        /\ peer.waits[k].pc = "returned"
        /\ peer.waits[k].id \in pendingJobs
        /\ InFlight(peer.waits[k].id)

====
